---- MODULE Spec2Model ----
(***************************************************************************)
(* check_infortrend: a Nagios plug-in that polls an Infortrend RAID over   *)
(* SNMP, decodes drive and device status codes and exits with one verdict. *)
(* The model follows one run of CheckInfortrend.check_all (Python 2).      *)
(***************************************************************************)
EXTENDS Integers, Sequences, FiniteSets, TLC

(***************************************************************************)
(* Nagios exit codes                                                       *)
(***************************************************************************)
UNKNOWN == 3
CRITICAL == 2
WARNING == 1
OK == 0

\* Exit status of the interpreter when an exception reaches the top level.
UncaughtExit == 1

\* 0xffff and the shift width used on "ludicrously large" sensor values.
Mask16 == 65535
Shift16 == 65536
\* Values above this are looked up in the legacy fan table.
MaxPlainRpm == 10000

(***************************************************************************)
(* Bounds of the model                                                     *)
(***************************************************************************)
MaxStatus == 255
MaxDevices == 2
MaxDrives == 2
MaxCount == 5

(***************************************************************************)
(* Tables                                                                  *)
(***************************************************************************)
blacklistoptions ==
    [t \in {1, 2, 3, 4, 5, 6, 8, 9, 10, 11, 12, 13, 14, 15, 17, 18, 31, 99} |->
        CASE t = 1 -> "power_supply"
          [] t = 2 -> "fan"
          [] t = 3 -> "temp_sensor"
          [] t = 4 -> "ups"
          [] t = 5 -> "voltage_sensor"
          [] t = 6 -> "current_sensor"
          [] t = 8 -> "temp_sensor"
          [] t = 9 -> "door"
          [] t = 10 -> "speaker"
          [] t = 11 -> "battery"
          [] t = 12 -> "led"
          [] t = 13 -> "cache_data_backup_flash_device"
          [] t = 14 -> "host_board"
          [] t = 15 -> "midplane_backplane"
          [] t = 17 -> "slot_states"
          [] t = 18 -> "enclosure_drawer"
          [] t = 31 -> "enclosure_management_services_controller"
          [] t = 99 -> "absent_drives"]

\* Mutant: type 99 has an entry, the dumping ground.
luDevTypeCodes_withAbsentDrives ==
    [t \in {1, 2, 3, 4, 5, 6, 8, 9, 10, 11, 12, 13, 14, 15, 17, 18, 31, 99} |->
        CASE t = 1 -> "_check_power_supply"
          [] t = 2 -> "_check_fan"
          [] t = 3 -> "_check_temp_sensor"
          [] t = 4 -> "_check_ups"
          [] t = 5 -> "_check_voltage_sensor"
          [] t = 6 -> "_check_current_sensor"
          [] t = 8 -> "_check_temp_sensor"
          [] t = 9 -> "_check_door"
          [] t = 10 -> "_check_speaker"
          [] t = 11 -> "_check_battery"
          [] t = 12 -> "_check_led"
          [] t = 13 -> "_check_cache_data_backup_flash_device"
          [] t = 14 -> "_check_generic_device"
          [] t = 15 -> "_check_null"
          [] t = 17 -> "_check_slot_states"
          [] t = 18 -> "_check_generic_device"
          [] t = 31 -> "_check_generic_device"
          [] t = 99 -> "_check_null"]

luDevTypeCodes ==
    [t \in {1, 2, 3, 4, 5, 6, 8, 9, 10, 11, 12, 13, 14, 15, 17, 18, 31} |->
        CASE t = 1 -> "_check_power_supply"
          [] t = 2 -> "_check_fan"
          [] t = 3 -> "_check_temp_sensor"
          [] t = 4 -> "_check_ups"
          [] t = 5 -> "_check_voltage_sensor"
          [] t = 6 -> "_check_current_sensor"
          [] t = 8 -> "_check_temp_sensor"
          [] t = 9 -> "_check_door"
          [] t = 10 -> "_check_speaker"
          [] t = 11 -> "_check_battery"
          [] t = 12 -> "_check_led"
          [] t = 13 -> "_check_cache_data_backup_flash_device"
          [] t = 14 -> "_check_generic_device"
          [] t = 15 -> "_check_null"
          [] t = 17 -> "_check_slot_states"
          [] t = 18 -> "_check_generic_device"
          [] t = 31 -> "_check_generic_device"]

fanSpeedsOld ==
    (0 :> 0) @@ (12292 :> 4000) @@ (77828 :> 4285) @@ (143364 :> 4570) @@
    (208900 :> 4571) @@ (274436 :> 4857) @@ (339972 :> 5428) @@
    (405508 :> 5713) @@ (471044 :> 5800)

fanSpeedsNew ==
    (1 :> 4000) @@ (2 :> 4285) @@ (3 :> 4570) @@ (0 :> 4571) @@
    (4 :> 4857) @@ (5 :> 5428) @@ (6 :> 5713) @@ (7 :> 5800)

\* The thresholds are Python strings in the source.
warnRPM == "5713"
critRPM == "5800"
minRPM == "0"
maxRPM == "6000"
warnTemp == "70"
critTemp == "80"
minTemp == "0"
maxTemp == "100"

\* Mutant: a new (unassigned) drive is nominal.
hddWarningCodes_assignedOnly ==
    (4 :> "Drive Initialization in Progress") @@
    (5 :> "Drive Rebuild in Progress") @@
    (6 :> "Add Drive to Logical Drive in Progress") @@
    (17 :> "Drive is in process of Cloning another Drive") @@
    (19 :> "Drive is in process of Copying from another Drive")

hddWarningCodes ==
    (0 :> "New (Unassigned) Drive") @@
    (4 :> "Drive Initialization in Progress") @@
    (5 :> "Drive Rebuild in Progress") @@
    (6 :> "Add Drive to Logical Drive in Progress") @@
    (17 :> "Drive is in process of Cloning another Drive") @@
    (19 :> "Drive is in process of Copying from another Drive")

hddCriticalCodes ==
    (63 :> "Drive Absent") @@ (252 :> "Missing Global Spare Drive") @@
    (253 :> "Missing Spare Drive") @@ (254 :> "Missing Drive") @@
    (255 :> "Failed Drive")

ldWarningCodes ==
    (1 :> "Rebuilding") @@ (2 :> "Initializing") @@ (3 :> "Degraded")

\* Mutant: an off-line logical drive is nominal.
ldCriticalCodes_onLineOnly ==
    (4 :> "Dead") @@ (5 :> "Invalid") @@ (6 :> "Incomplete") @@
    (7 :> "Drive Missing")

ldCriticalCodes ==
    (4 :> "Dead") @@ (5 :> "Invalid") @@ (6 :> "Incomplete") @@
    (7 :> "Drive Missing") @@ (128 :> "Logical Drive Off-line")

(***************************************************************************)
(* Python helpers                                                          *)
(***************************************************************************)
\* str(n) for the small positive numbers that label drives.
str(n) ==
    CASE n = 1 -> "1" [] n = 2 -> "2" [] n = 3 -> "3" [] n = 4 -> "4"
      [] n = 5 -> "5" [] OTHER -> "n"

\* ' '.join(words)
RECURSIVE join(_)
join(words) ==
    IF words = <<>> THEN ""
    ELSE IF Len(words) = 1 THEN words[1]
    ELSE words[1] \o " " \o join(Tail(words))

\* list.count(x)
count(list, x) == Cardinality({i \in DOMAIN list : list[i] = x})

\* seq[-a:-b] for a > b > 0: Python clamps a slice to the sequence, it never
\* raises.
slice(seq, a, b) ==
    LET L == Len(seq)
        start == IF L - a > 0 THEN L - a ELSE 0
        stop == IF L - b > 0 THEN L - b ELSE 0
    IN SubSeq(seq, start + 1, stop)

\* try: if binary[-k] == '1': ... except IndexError: pass
\* TRUE iff the indexing succeeds and the digit is '1'.
bitIsOne(binary, k) == Len(binary) >= k /\ binary[Len(binary) - k + 1] = "1"

\* int >= str under CPython 2: objects of different types are ordered with
\* numbers before every other type, so an int is never >= a str.
intGEstr(i, s) == FALSE

(***************************************************************************)
(* Bitfield utilities                                                      *)
(***************************************************************************)
\* The digits bin(number) writes after its prefix, for number >= 0, as a
\* sequence of '0' and '1'; bin(0) is '0b0'.
RECURSIVE binDigits(_)
binDigits(number) ==
    IF number < 2 THEN <<IF number = 1 THEN "1" ELSE "0">>
    ELSE Append(binDigits(number \div 2), IF number % 2 = 1 THEN "1" ELSE "0")

\* bin(number) itself: the '0b' prefix followed by the digits.
bin(number) == <<"0", "b">> \o binDigits(number)

\* Mutant: the prefix is not removed.
convertIntegerToBinaryAndFormat_keepsPrefix(number) == bin(number)

\* bin(number)[2:]
convertIntegerToBinaryAndFormat(number) == SubSeq(bin(number), 3, Len(bin(number)))

RECURSIVE binValue(_)
binValue(binary) ==
    IF binary = <<>> THEN 0
    ELSE 2 * binValue(SubSeq(binary, 1, Len(binary) - 1))
         + (IF binary[Len(binary)] = "1" THEN 1 ELSE 0)

\* int('0b' + binary, 2): the empty digit string is not a literal, int()
\* raises ValueError for it.
convertBinarytoInteger(binary) ==
    IF binary = <<>> THEN [raised |-> "ValueError", value |-> 0]
    ELSE [raised |-> "", value |-> binValue(binary)]

(***************************************************************************)
(* The bit checks of a classifier, in source order.  A classifier builds   *)
(* outputLine, bumps self.state as it goes and appends the joined line to  *)
(* self.output at the end; an exception other than IndexError leaves the   *)
(* try block and the method, keeping the counter changes made so far.      *)
(***************************************************************************)
\* try: if binary[-pos] == '1': outputLine.append(msg); self.state[sev] += 1
bit(pos, msg, sev) ==
    [kind |-> "bit", hi |-> pos, lo |-> 0, msg |-> msg, sev |-> sev,
     table |-> <<>>]

\* try: numeral = self._convertBinarytoInteger(binary[-hi:-lo]);
\*      if numeral == k: outputLine.append(table[k].msg); ...
numeralCheck(hi, lo, table) ==
    [kind |-> "numeral", hi |-> hi, lo |-> lo, msg |-> "", sev |-> "",
     table |-> table]

finding(msg, sev) == [msg |-> msg, sev |-> sev]

hit(acc, msg, sev) ==
    [acc EXCEPT !.msgs = Append(@, msg),
                !.critical = IF sev = "critical" THEN @ + 1 ELSE @,
                !.warning = IF sev = "warning" THEN @ + 1 ELSE @]

RECURSIVE runChecks(_, _, _, _)
runChecks(binary, checks, i, acc) ==
    IF i > Len(checks) THEN acc
    ELSE LET c == checks[i] IN
         IF c.kind = "bit"
         THEN runChecks(binary, checks, i + 1,
                        IF bitIsOne(binary, c.hi) THEN hit(acc, c.msg, c.sev)
                        ELSE acc)
         ELSE LET n == convertBinarytoInteger(slice(binary, c.hi, c.lo)) IN
              IF n.raised # "" THEN [acc EXCEPT !.error = n.raised]
              ELSE runChecks(binary, checks, i + 1,
                             IF n.value \in DOMAIN c.table
                             THEN hit(acc, c.table[n.value].msg,
                                      c.table[n.value].sev)
                             ELSE acc)

\* What one call of a classifier does to the aggregator: the lines appended to
\* self.output, the samples appended to self.perfData, the increments of
\* self.state and the exception that left the method ("" for a normal return).
NoEffect ==
    [lines |-> <<>>, perf |-> <<>>, critical |-> 0, warning |-> 0, error |-> ""]

raise(exception) == [NoEffect EXCEPT !.error = exception]

\* if status != 0: outputLine = [deviceDescription + ':']; the checks;
\* self.output.append(' '.join(outputLine))
bitClassifier(deviceDescription, status, checks) ==
    IF status = 0 THEN NoEffect
    ELSE LET binary == convertIntegerToBinaryAndFormat(status)
             r == runChecks(binary, checks, 1,
                            [msgs |-> <<deviceDescription \o ":">>,
                             critical |-> 0, warning |-> 0, error |-> ""])
         IN [lines |-> IF r.error = "" THEN <<join(r.msgs)>> ELSE <<>>,
             perf |-> <<>>, critical |-> r.critical, warning |-> r.warning,
             error |-> r.error]

\* Mutant: the charge numeral is read one position lower, from binary[-3:-1].
check_battery_numeralLower(deviceDescription, status, sensorValue, sensorValueUnit) ==
    bitClassifier(deviceDescription, status,
        <<bit(1, "Battery is malfunctioning", "critical"),
          bit(2, "Battery charging on", "none"),
          numeralCheck(3, 1,
              (1 :> finding("Battery not fully charged", "none")) @@
              (2 :> finding("Battery charge critically low", "critical")) @@
              (3 :> finding("Battery completely drained", "critical"))),
          bit(7, "Battery-backup is disabled", "none"),
          bit(8, "Battery is not present", "critical")>>)

check_battery(deviceDescription, status, sensorValue, sensorValueUnit) ==
    bitClassifier(deviceDescription, status,
        <<bit(1, "Battery is malfunctioning", "critical"),
          bit(2, "Battery charging on", "none"),
          numeralCheck(4, 2,
              (1 :> finding("Battery not fully charged", "none")) @@
              (2 :> finding("Battery charge critically low", "critical")) @@
              (3 :> finding("Battery completely drained", "critical"))),
          bit(7, "Battery-backup is disabled", "none"),
          bit(8, "Battery is not present", "critical")>>)

check_cache_data_backup_flash_device(deviceDescription, status, sensorValue, sensorValueUnit) ==
    bitClassifier(deviceDescription, status,
        <<bit(1, "Flash Device malfunctioning", "critical")>>)

\* Mutant: the current sensor has the four levels of the voltage sensor.
check_current_sensor_fourLevels(deviceDescription, status, sensorValue, sensorValueUnit) ==
    bitClassifier(deviceDescription, status,
        <<bit(1, "Current sensor malfunctioning", "critical"),
          numeralCheck(4, 1,
              (2 :> finding("Low current warning", "warning")) @@
              (3 :> finding("Over current warning", "warning")) @@
              (4 :> finding("Low current limit exceeded", "critical")) @@
              (5 :> finding("Over current limit exceeded", "critical"))),
          bit(7, "Current sensor is not activated", "warning"),
          bit(8, "Current sensor not present", "critical")>>)

check_current_sensor(deviceDescription, status, sensorValue, sensorValueUnit) ==
    bitClassifier(deviceDescription, status,
        <<bit(1, "Current sensor malfunctioning", "critical"),
          numeralCheck(4, 1,
              (3 :> finding("Over current warning", "warning")) @@
              (5 :> finding("Over current limit exceeded", "critical"))),
          bit(7, "Current sensor is not activated", "warning"),
          bit(8, "Current sensor not present", "critical")>>)

\* Mutant: the open door is read one position higher, at binary[-3].
check_door_openAtThird(deviceDescription, status, sensorValue, sensorValueUnit) ==
    bitClassifier(deviceDescription, status,
        <<bit(1, "Door, door lock, or door sensor malfunctioning", "critical"),
          bit(3, "Door is open", "warning"),
          bit(7, "Door lock not engaged", "warning"),
          bit(8, "Door is not present", "critical")>>)

check_door(deviceDescription, status, sensorValue, sensorValueUnit) ==
    bitClassifier(deviceDescription, status,
        <<bit(1, "Door, door lock, or door sensor malfunctioning", "critical"),
          bit(2, "Door is open", "warning"),
          bit(7, "Door lock not engaged", "warning"),
          bit(8, "Door is not present", "critical")>>)

check_generic_device(deviceDescription, status, sensorValue, sensorValueUnit) ==
    bitClassifier(deviceDescription, status,
        <<bit(1, deviceDescription \o " malfunctioning", "critical")>>)

check_led(deviceDescription, status, sensorValue, sensorValueUnit) ==
    bitClassifier(deviceDescription, status, <<bit(7, "ON", "none")>>)

check_null(deviceDescription, status, sensorValue, sensorValueUnit) == NoEffect

check_power_supply(deviceDescription, status, sensorValue, sensorValueUnit) ==
    bitClassifier(deviceDescription, status,
        <<bit(1, "Power supply is malfunctioning", "critical"),
          bit(7, "Power supply is off", "warning"),
          bit(8, "Power supply is not present", "critical")>>)

\* Mutant: the switched-off speaker is read one position lower, at binary[-6].
check_speaker_offAtSixth(deviceDescription, status, sensorValue, sensorValueUnit) ==
    bitClassifier(deviceDescription, status,
        <<bit(1, "Speaker is malfunctioning", "critical"),
          bit(6, "Speaker is off", "warning"),
          bit(8, "Speaker is not present", "critical")>>)

check_speaker(deviceDescription, status, sensorValue, sensorValueUnit) ==
    bitClassifier(deviceDescription, status,
        <<bit(1, "Speaker is malfunctioning", "critical"),
          bit(7, "Speaker is off", "warning"),
          bit(8, "Speaker is not present", "critical")>>)

check_slot_states(deviceDescription, status, sensorValue, sensorValueUnit) ==
    bitClassifier(deviceDescription, status,
        <<bit(1, "Slot sense circuitry is malfunctioning", "critical"),
          bit(2, "Device in slot has been marked bad and is awaiting a replacement",
              "warning"),
          bit(3, "Slot is not activated", "warning"),
          bit(7, "Slot is ready for insertion/removal", "none"),
          bit(8, "Slot is empty", "warning")>>)

\* Mutant: status 255 is decoded like any other status word.
check_ups_decodes255(deviceDescription, status, sensorValue, sensorValueUnit) ==
    bitClassifier(deviceDescription, status,
        <<bit(1, "Unit is malfunctioning", "critical"),
          bit(2, "AC Power not present", "critical"),
          numeralCheck(4, 2,
              (1 :> finding("Battery not fully charged", "warning")) @@
              (2 :> finding("Battery charge critically low", "critical")) @@
              (3 :> finding("Battery completely drained", "critical"))),
          bit(7, "UPS is off", "warning"),
          bit(8, "UPS is not present", "critical")>>)

\* When the status is 255, state is unknown and we ignore
check_ups(deviceDescription, status, sensorValue, sensorValueUnit) ==
    IF status = 255 THEN NoEffect
    ELSE bitClassifier(deviceDescription, status,
        <<bit(1, "Unit is malfunctioning", "critical"),
          bit(2, "AC Power not present", "critical"),
          numeralCheck(4, 2,
              (1 :> finding("Battery not fully charged", "warning")) @@
              (2 :> finding("Battery charge critically low", "critical")) @@
              (3 :> finding("Battery completely drained", "critical"))),
          bit(7, "UPS is off", "warning"),
          bit(8, "UPS is not present", "critical")>>)

check_voltage_sensor(deviceDescription, status, sensorValue, sensorValueUnit) ==
    bitClassifier(deviceDescription, status,
        <<bit(1, "Voltage sensor is malfunctioning", "critical"),
          numeralCheck(4, 1,
              (2 :> finding("Low voltage warning", "warning")) @@
              (3 :> finding("High voltage warning", "warning")) @@
              (4 :> finding("Low voltage limit exceeded", "critical")) @@
              (5 :> finding("High voltage limit exceeded", "critical"))),
          bit(7, "Voltage sensor is not activated", "warning"),
          bit(8, "Voltage sensor is not present", "critical")>>)

(***************************************************************************)
(* Fan and temperature: the two classifiers that emit a performance sample *)
(***************************************************************************)
\* Mutant: a value above 0xffff is not masked before the tables are used.
fanSpeed_unmasked(sensorValue, sensorValueUnit) ==
    IF sensorValue > MaxPlainRpm
    THEN IF sensorValue \in DOMAIN fanSpeedsOld
         THEN [raised |-> "", value |-> fanSpeedsOld[sensorValue]]
         ELSE [raised |-> "KeyError", value |-> 0]
    ELSE IF sensorValueUnit = 0 \/ sensorValueUnit = -1
    THEN IF sensorValue \in DOMAIN fanSpeedsNew
         THEN [raised |-> "", value |-> fanSpeedsNew[sensorValue]]
         ELSE [raised |-> "KeyError", value |-> 0]
    ELSE IF sensorValueUnit = 1
    THEN [raised |-> "", value |-> sensorValue]
    ELSE [raised |-> "", value |-> 0]

\* Mutant: the two unit branches are swapped, unit 1 indexes the table and
\* unit 0 or -1 takes the value as rpm.
fanSpeed_unitsSwapped(sensorValue, sensorValueUnit) ==
    LET masked == IF sensorValue > Mask16 THEN sensorValue % Shift16
                  ELSE sensorValue
    IN IF masked > MaxPlainRpm
       THEN IF masked \in DOMAIN fanSpeedsOld
            THEN [raised |-> "", value |-> fanSpeedsOld[masked]]
            ELSE [raised |-> "KeyError", value |-> 0]
       ELSE IF sensorValueUnit = 1
       THEN IF masked \in DOMAIN fanSpeedsNew
            THEN [raised |-> "", value |-> fanSpeedsNew[masked]]
            ELSE [raised |-> "KeyError", value |-> 0]
       ELSE IF sensorValueUnit = 0 \/ sensorValueUnit = -1
       THEN [raised |-> "", value |-> masked]
       ELSE [raised |-> "", value |-> 0]

\* The fan speed of _check_fan: [raised, value]; a dict lookup with a key the
\* table lacks raises KeyError.
fanSpeed(sensorValue, sensorValueUnit) ==
    LET masked == IF sensorValue > Mask16 THEN sensorValue % Shift16
                  ELSE sensorValue
    IN IF masked > MaxPlainRpm
       THEN IF masked \in DOMAIN fanSpeedsOld
            THEN [raised |-> "", value |-> fanSpeedsOld[masked]]
            ELSE [raised |-> "KeyError", value |-> 0]
       ELSE IF sensorValueUnit = 0 \/ sensorValueUnit = -1
       THEN IF masked \in DOMAIN fanSpeedsNew
            THEN [raised |-> "", value |-> fanSpeedsNew[masked]]
            ELSE [raised |-> "KeyError", value |-> 0]
       ELSE IF sensorValueUnit = 1
       THEN [raised |-> "", value |-> masked]
       ELSE [raised |-> "", value |-> 0]

\* Mutant: the two thresholds are written in the other order.
perfSample_critFirst(label, value, warn, crit, min, max) ==
    [label |-> label, value |-> value, warn |-> crit, crit |-> warn,
     min |-> min, max |-> max]

\* "'%s'=%s;%s;%s;%s;%s" % (label, value, warn, crit, min, max)
perfSample(label, value, warn, crit, min, max) ==
    [label |-> label, value |-> value, warn |-> warn, crit |-> crit,
     min |-> min, max |-> max]

check_fan(deviceDescription, status, sensorValue, sensorValueUnit) ==
    LET speed == fanSpeed(sensorValue, sensorValueUnit)
        start == [msgs |-> <<deviceDescription \o ":">>, critical |-> 0,
                  warning |-> 0, error |-> ""]
        r == IF status # 0
             THEN runChecks(convertIntegerToBinaryAndFormat(status),
                      <<bit(1, "Fan is malfunctioning", "critical"),
                        bit(7, "Fan is off", "warning"),
                        bit(8, "Fan is not present", "critical")>>, 1, start)
             ELSE start
        statusLine == IF status # 0 THEN <<join(r.msgs)>> ELSE <<>>
        sample == perfSample(deviceDescription, speed.value, warnRPM, critRPM,
                             minRPM, maxRPM)
    IN IF speed.raised # "" THEN raise(speed.raised)
       ELSE IF intGEstr(speed.value, critRPM)
       THEN [lines |-> statusLine \o
                       <<join(Append(r.msgs, "Fan speed is >= " \o critRPM))>>,
             perf |-> <<sample>>, critical |-> r.critical + 1,
             warning |-> r.warning, error |-> ""]
       ELSE IF intGEstr(speed.value, warnRPM)
       THEN [lines |-> statusLine \o
                       <<join(Append(r.msgs, "Fan speed is >= " \o warnRPM))>>,
             perf |-> <<sample>>, critical |-> r.critical,
             warning |-> r.warning + 1, error |-> ""]
       ELSE [lines |-> statusLine, perf |-> <<sample>>,
             critical |-> r.critical, warning |-> r.warning, error |-> ""]

\* Mutant: the quotient is rounded toward zero.
div_towardZero(a, b) == IF a >= 0 THEN a \div b ELSE 0 - ((0 - a) \div b)

\* a / b for two ints and b > 0 under Python 2: the floor of the quotient.
div(a, b) == a \div b

\* Mutant: the formula is applied to a value of 0 as well.
temperature_noZeroCase(sensorValue, sensorValueUnit) ==
    LET shifted == IF sensorValue > Mask16 THEN sensorValue \div Shift16
                   ELSE sensorValue
    IN div(shifted * sensorValueUnit, 1000) - 273

\* The temperature of _check_temp_sensor; / is Python 2 integer division,
\* which floors.
temperature(sensorValue, sensorValueUnit) ==
    LET shifted == IF sensorValue > Mask16 THEN sensorValue \div Shift16
                   ELSE sensorValue
    IN IF shifted = 0 THEN shifted
       ELSE div(shifted * sensorValueUnit, 1000) - 273

check_temp_sensor(deviceDescription, status, sensorValue, sensorValueUnit) ==
    LET sample == perfSample(deviceDescription,
                             temperature(sensorValue, sensorValueUnit),
                             warnTemp, critTemp, minTemp, maxTemp)
        r == bitClassifier(deviceDescription, status,
                <<bit(1, "Temperature sensor is malfunctioning", "critical"),
                  numeralCheck(4, 1,
                      (2 :> finding("Cold temperature warning", "warning")) @@
                      (3 :> finding("Hot temperature warning", "warning")) @@
                      (4 :> finding("Cold temperature limit exceeded", "critical")) @@
                      (5 :> finding("Hot temperature limit exceeded", "critical"))),
                  bit(7, "Temperature sensor is not activated", "warning"),
                  bit(8, "Temperature sensor is not present", "critical")>>)
    IN [r EXCEPT !.perf = <<sample>>]

(***************************************************************************)
(* Dispatch                                                                *)
(***************************************************************************)
\* luDevTypeCodes[device](description, status, value, unit)
classify(method, deviceDescription, status, sensorValue, sensorValueUnit) ==
    CASE method = "_check_power_supply" ->
            check_power_supply(deviceDescription, status, sensorValue, sensorValueUnit)
      [] method = "_check_fan" ->
            check_fan(deviceDescription, status, sensorValue, sensorValueUnit)
      [] method = "_check_temp_sensor" ->
            check_temp_sensor(deviceDescription, status, sensorValue, sensorValueUnit)
      [] method = "_check_ups" ->
            check_ups(deviceDescription, status, sensorValue, sensorValueUnit)
      [] method = "_check_voltage_sensor" ->
            check_voltage_sensor(deviceDescription, status, sensorValue, sensorValueUnit)
      [] method = "_check_current_sensor" ->
            check_current_sensor(deviceDescription, status, sensorValue, sensorValueUnit)
      [] method = "_check_door" ->
            check_door(deviceDescription, status, sensorValue, sensorValueUnit)
      [] method = "_check_speaker" ->
            check_speaker(deviceDescription, status, sensorValue, sensorValueUnit)
      [] method = "_check_battery" ->
            check_battery(deviceDescription, status, sensorValue, sensorValueUnit)
      [] method = "_check_led" ->
            check_led(deviceDescription, status, sensorValue, sensorValueUnit)
      [] method = "_check_cache_data_backup_flash_device" ->
            check_cache_data_backup_flash_device(deviceDescription, status, sensorValue, sensorValueUnit)
      [] method = "_check_generic_device" ->
            check_generic_device(deviceDescription, status, sensorValue, sensorValueUnit)
      [] method = "_check_slot_states" ->
            check_slot_states(deviceDescription, status, sensorValue, sensorValueUnit)
      [] method = "_check_null" ->
            check_null(deviceDescription, status, sensorValue, sensorValueUnit)

\* Mutant: the type code, not its tag, is looked up in the blacklist; a list
\* of tags never holds a code.
notBlacklisted_byCode(list, device) == TRUE

\* not self.blacklist.count(blacklistoptions[device])
notBlacklisted(list, device) == count(list, blacklistoptions[device]) = 0

\* One pass of the loop body of check_device_status, for the reading at the
\* (1-based) position number of the type list.  The five lists are the
\* answers to the five snmpwalk queries.
deviceEffect(list, dev, number) ==
    LET device == dev.luDevType[number] IN
    IF device \notin DOMAIN blacklistoptions THEN raise("KeyError")
    ELSE IF notBlacklisted(list, device)
    THEN IF device \notin DOMAIN luDevTypeCodes THEN raise("KeyError")
         ELSE IF \/ number > Len(dev.luDevDescription)
                 \/ number > Len(dev.luDevStatus)
                 \/ number > Len(dev.luDevValue)
                 \/ number > Len(dev.luDevValueUnit)
         THEN raise("IndexError")
         ELSE classify(luDevTypeCodes[device], dev.luDevDescription[number],
                       dev.luDevStatus[number], dev.luDevValue[number],
                       dev.luDevValueUnit[number])
    ELSE NoEffect

(***************************************************************************)
(* Drives and logical drives                                               *)
(***************************************************************************)
\* The two snmpget queries of _check_hdd_model_serial_number(hdd).
hddModelSerialQueries(hdd) == <<"1.6.1.15." \o str(hdd), "1.6.1.17." \o str(hdd)>>

\* The lines _check_hdd_model_serial_number(hdd) appends; the agent's answer
\* to a query is written <oid>.
hddModelSerialLines(hdd) ==
    <<"model:" \o "<1.6.1.15." \o str(hdd) \o ">",
      "serial number:" \o "<1.6.1.17." \o str(hdd) \o ">">>

\* Mutant: the model and serial number are looked up for a failed drive only,
\* not for an absent one.
hddEffect_lookupFailedOnly(list, drive, status) ==
    IF status = 63 /\ count(list, "absent_drives") # 0
    THEN NoEffect @@ [queries |-> <<>>]
    ELSE IF status \in DOMAIN hddCriticalCodes
    THEN [lines |-> <<"Drive " \o str(drive + 1) \o ": " \o hddCriticalCodes[status]>>
                    \o (IF status = 255
                        THEN hddModelSerialLines(drive + 1) ELSE <<>>),
          perf |-> <<>>, critical |-> 1, warning |-> 0, error |-> "",
          queries |-> IF status = 255
                      THEN hddModelSerialQueries(drive + 1) ELSE <<>>]
    ELSE IF status \in DOMAIN hddWarningCodes
    THEN [lines |-> <<"Drive " \o str(drive + 1) \o ": " \o hddWarningCodes[status]>>,
          perf |-> <<>>, critical |-> 0, warning |-> 1, error |-> "",
          queries |-> <<>>]
    ELSE NoEffect @@ [queries |-> <<>>]

\* One pass of the loop body of _check_hdd_status: drive is the 0-based
\* position given by enumerate.  queries: the lookups it triggers.
hddEffect(list, drive, status) ==
    IF status = 63 /\ count(list, "absent_drives") # 0
    THEN NoEffect @@ [queries |-> <<>>]
    ELSE IF status \in DOMAIN hddCriticalCodes
    THEN [lines |-> <<"Drive " \o str(drive + 1) \o ": " \o hddCriticalCodes[status]>>
                    \o (IF status = 255 \/ status = 63
                        THEN hddModelSerialLines(drive + 1) ELSE <<>>),
          perf |-> <<>>, critical |-> 1, warning |-> 0, error |-> "",
          queries |-> IF status = 255 \/ status = 63
                      THEN hddModelSerialQueries(drive + 1) ELSE <<>>]
    ELSE IF status \in DOMAIN hddWarningCodes
    THEN [lines |-> <<"Drive " \o str(drive + 1) \o ": " \o hddWarningCodes[status]>>,
          perf |-> <<>>, critical |-> 0, warning |-> 1, error |-> "",
          queries |-> <<>>]
    ELSE NoEffect @@ [queries |-> <<>>]

\* One pass of the loop body of _check_ld_status.
ldEffect(drive, status) ==
    IF status \in DOMAIN ldCriticalCodes
    THEN [lines |-> <<"Logical Drive " \o str(drive + 1) \o ": "
                      \o ldCriticalCodes[status]>>,
          perf |-> <<>>, critical |-> 1, warning |-> 0, error |-> ""]
    ELSE IF status \in DOMAIN ldWarningCodes
    THEN [lines |-> <<"Logical Drive " \o str(drive + 1) \o ": "
                      \o ldWarningCodes[status]>>,
          perf |-> <<>>, critical |-> 0, warning |-> 1, error |-> ""]
    ELSE NoEffect

(***************************************************************************)
(* Verdict                                                                 *)
(***************************************************************************)
\* Mutant: the warning counter is tested before the critical counter.
verdictOf_warningFirst(st) ==
    IF st.warning # 0 THEN "WARNING"
    ELSE IF st.critical # 0 THEN "CRITICAL"
    ELSE IF st.unknown # 0 THEN "UNKNOWN"
    ELSE "OK"

\* The if/elif chain of parse_print_exit.
verdictOf(st) ==
    IF st.critical # 0 THEN "CRITICAL"
    ELSE IF st.warning # 0 THEN "WARNING"
    ELSE IF st.unknown # 0 THEN "UNKNOWN"
    ELSE "OK"

\* eval(status): the module constant of that name.
evalStatus(status) ==
    CASE status = "CRITICAL" -> CRITICAL
      [] status = "WARNING" -> WARNING
      [] status = "UNKNOWN" -> UNKNOWN
      [] status = "OK" -> OK

(***************************************************************************)
(* Inputs of a run: the blacklist option and the agent's answers           *)
(***************************************************************************)
SeqsUpTo(S, n) == UNION {[1..k -> S] : k \in 0..n}

reading(description, type, status, value, unit) ==
    [description |-> description, type |-> type, status |-> status,
     value |-> value, unit |-> unit]

\* The answers of the agent to the snmpwalk queries of check_drive_status and
\* check_device_status, for a device array given reading by reading.
agentOf(readings, lds, hdds) ==
    [luDevDescription |-> [i \in DOMAIN readings |-> readings[i].description],
     luDevType |-> [i \in DOMAIN readings |-> readings[i].type],
     luDevValue |-> [i \in DOMAIN readings |-> readings[i].value],
     luDevValueUnit |-> [i \in DOMAIN readings |-> readings[i].unit],
     luDevStatus |-> [i \in DOMAIN readings |-> readings[i].status],
     ldStatus |-> lds,
     hddStatus |-> hdds]

DeviceLists ==
    {"luDevDescription", "luDevType", "luDevValue", "luDevValueUnit", "luDevStatus"}

\* An answer with one of the five device lists one entry shorter or longer.
reshape(a, list, delta) ==
    [a EXCEPT ![list] =
        IF delta < 0 THEN SubSeq(@, 1, Len(@) - 1)
        ELSE Append(@, IF list = "luDevDescription" THEN "extra" ELSE 0)]

\* Type codes: those of the two tables, and 7 and 16, which neither has.
TypeCodes == (DOMAIN blacklistoptions) \cup {7, 16}

StatusWords == 0..MaxStatus
StatusSample == {0, 1, 64, 255}
Descriptions == {"Fan 1", "CPU"}
SensorValues ==
    {0, 1, 6, 7, 8, 300, 500, 5713, 5800, 12292, 20000, 65536, 77828, 131072,
     143364, 208900, 274436, 339972, 405508, 471044, 547603968}
SensorUnits == {-1000, -1, 0, 1, 2, 1000}

\* Status words with bits above the eighth.
HighStatusWords == {256, 321, 449, 510, 1023}

\* One reading, every status word.
AllStatusReadings ==
    {reading("Fan 1", t, s, 0, 0) :
        t \in TypeCodes, s \in StatusWords \cup HighStatusWords}

\* One reading of a fan, a temperature sensor or a UPS, every description,
\* value and unit.
AllValueReadings ==
    {reading(x[1], x[2], x[3], x[4], x[5]) :
        x \in Descriptions \X {2, 3, 4, 8} \X StatusSample \X SensorValues
              \X SensorUnits}

\* Readings for device arrays of several devices.
ArrayReadings ==
    {reading("Fan 1", 2, 0, 12292, -1), reading("Fan 2", 2, 65, 7, 0),
     reading("Fan 3", 2, 0, 20000, 0),
     reading("CPU", 3, 0, 300, 1000), reading("Board", 8, 6, 547603968, 1000),
     reading("Door", 9, 66, 0, 0), reading("UPS", 4, 255, 0, 0),
     reading("UPS", 4, 66, 0, 0), reading("Battery", 11, 1, 0, 0),
     reading("Battery", 11, 128, 0, 0), reading("PSU", 1, 129, 0, 0),
     reading("LED", 12, 64, 0, 0), reading("SES", 31, 1, 0, 0),
     reading("Slot", 17, 2, 0, 0), reading("Midplane", 15, 5, 0, 0),
     reading("Other", 7, 0, 0, 0), reading("Bay", 99, 0, 0, 0)}

Blacklists ==
    {<<>>, <<"fan">>, <<"temp_sensor", "absent_drives">>, <<"battery", "battery">>}

ShapeReadings ==
    {reading("Fan 1", 2, 0, 12292, -1), reading("Door", 9, 66, 0, 0),
     reading("PSU", 1, 0, 0, 0)}

HddCodes == {0, 1, 17, 63, 254, 255}
LdCodes == {0, 1, 3, 4, 128}

ShapedAgents ==
    {reshape(agentOf(x[1], <<>>, <<>>), x[2], x[3]) :
        x \in (SeqsUpTo(ShapeReadings, MaxDevices) \ {<<>>}) \X DeviceLists
              \X {-1, 1}}

DriveBlacklists == {<<>>, <<"absent_drives">>, <<"fan">>}

(***************************************************************************)
(* Snmp._parse_snmp_output on its own.  A text is a sequence of atoms: a   *)
(* character (':', ' ', '"', newline, a digit, a sign) or a word without   *)
(* any of them.  A Python value is an int or a str.                        *)
(***************************************************************************)
pyInt(n) == [type |-> "int", int |-> n, str |-> <<>>]
pyStr(text) == [type |-> "str", int |-> 0, str |-> text]

whitespace == {" ", "\n"}
quotes == {"\""}

\* text.split(sep): the pieces between the occurrences of sep, at least one.
RECURSIVE split(_, _)
split(text, sep) ==
    IF \A i \in DOMAIN text : text[i] # sep THEN <<text>>
    ELSE LET first == CHOOSE i \in DOMAIN text :
                         text[i] = sep /\ \A j \in 1..(i - 1) : text[j] # sep
         IN <<SubSeq(text, 1, first - 1)>>
            \o split(SubSeq(text, first + 1, Len(text)), sep)

RECURSIVE lstrip(_, _)
lstrip(text, chars) ==
    IF text # <<>> /\ text[1] \in chars THEN lstrip(Tail(text), chars) ELSE text

RECURSIVE rstrip(_, _)
rstrip(text, chars) ==
    IF text # <<>> /\ text[Len(text)] \in chars
    THEN rstrip(SubSeq(text, 1, Len(text) - 1), chars)
    ELSE text

\* Mutant: only the left end is stripped.
strip_leftOnly(text, chars) == lstrip(text, chars)

\* text.strip() and text.strip(chars)
strip(text, chars) == rstrip(lstrip(text, chars), chars)

digit ==
    ("0" :> 0) @@ ("1" :> 1) @@ ("2" :> 2) @@ ("3" :> 3) @@ ("4" :> 4) @@
    ("5" :> 5) @@ ("6" :> 6) @@ ("7" :> 7) @@ ("8" :> 8) @@ ("9" :> 9)

RECURSIVE decimal(_)
decimal(digits) ==
    IF digits = <<>> THEN 0
    ELSE 10 * decimal(SubSeq(digits, 1, Len(digits) - 1))
         + digit[digits[Len(digits)]]

\* int(value): surrounding whitespace is ignored, then an optional sign and
\* at least one digit; anything else raises ValueError.
int(value) ==
    LET body == strip(value, whitespace)
        signed == body # <<>> /\ body[1] \in {"-", "+"}
        digits == IF signed THEN Tail(body) ELSE body
    IN IF digits # <<>> /\ \A i \in DOMAIN digits : digits[i] \in DOMAIN digit
       THEN [raised |-> "",
             value |-> IF signed /\ body[1] = "-" THEN 0 - decimal(digits)
                       ELSE decimal(digits)]
       ELSE [raised |-> "ValueError", value |-> 0]

\* The body of the loop for one item: [raised, value].
parseItem(item) ==
    LET parts == split(item, ":")
        unpacked == Len(parts) = 2
        style == IF unpacked THEN parts[1] ELSE <<>>
        value == IF unpacked THEN parts[2] ELSE item
    IN IF unpacked /\ style = <<"INTEGER">>
       THEN [raised |-> int(value).raised, value |-> pyInt(int(value).value)]
       ELSE IF unpacked /\ style = <<"STRING">>
       THEN [raised |-> "",
             value |-> pyStr(strip(strip(strip(value, whitespace), quotes),
                                   whitespace))]
       ELSE [raised |-> "", value |-> pyStr(value)]

\* for item in output.split('\n'): ...; an exception leaves the method.
RECURSIVE parseItems(_, _, _)
parseItems(items, i, final_output) ==
    IF i > Len(items) THEN [raised |-> "", final_output |-> final_output]
    ELSE LET r == parseItem(items[i]) IN
         IF r.raised # "" THEN [raised |-> r.raised, final_output |-> final_output]
         ELSE parseItems(items, i + 1, Append(final_output, r.value))

parse_snmp_output(snmp_command, output) ==
    LET r == parseItems(split(output, "\n"), 1, <<>>) IN
    IF r.raised = "" /\ snmp_command = "snmpget"
    THEN [r EXCEPT !.final_output = r.final_output[1]]
    ELSE r

\* Raw outputs: every text of up to MaxOutput atoms of a small alphabet, and
\* the outputs of an agent, of the doctests and of net-snmp's messages.
MaxOutput == 4

Alphabet == {"INTEGER", "STRING", ":", " ", "\"", "\n", "7", "a"}

IntegerLine(n) == <<"INTEGER", ":", " ">> \o n
StringLine(text) == <<"STRING", ":", " ", "\"">> \o text \o <<"\"">>

NoSuchObject ==
    <<"No", " ", "Such", " ", "Object", " ", "available", " ", "on", " ",
      "this", " ", "agent", " ", "at", " ", "this", " ", "OID">>

SampleLines ==
    {IntegerLine(<<"0">>), IntegerLine(<<"6", "4">>), IntegerLine(<<"-", "1">>),
     IntegerLine(<<"a">>),
     StringLine(<<"Notification">>),
     StringLine(<<" ", "Notification", " ", " ", " ">>),
     StringLine(<<"Any", " ", "Source">>),
     StringLine(<<"a", ":", "7">>),
     StringLine(<<"\"", "a">>),
     NoSuchObject,
     <<"Timeout", ":", " ", "No", " ", "Response", " ", "from", " ", "localhost">>,
     <<"Gauge32", ":", " ", "7">>,
     <<"Hex-STRING", ":", " ", "0A", " ", "0B">>}

RawOutputs ==
    SeqsUpTo(Alphabet, MaxOutput)
    \cup SampleLines
    \cup {a \o <<"\n">> \o b : a \in SampleLines, b \in SampleLines}

(***************************************************************************)
(* State                                                                   *)
(***************************************************************************)
VARIABLES
    blacklist,  \* self.blacklist
    agent,      \* what the SNMP agent answers in this run
    pc,         \* the method check_all is in
    number,     \* how many entries the running loop has consumed
    state,      \* self.state
    output,     \* self.output
    perfData,   \* self.perfData
    queries,    \* the model/serial lookups sent so far
    verdict,    \* the status printed by parse_print_exit, "" before
    exitCode,   \* the exit status of the process, -1 while it runs
    error,      \* the exception that ended the run, "" if none
    pre,        \* history: state, output, perfData, queries before the last step
    last,       \* history: the last step, [op, number]
    conv,       \* a call of the bitfield utilities: number, binary, integer
    snmp        \* a call of _parse_snmp_output: snmp_command, output, final_output

vars ==
    <<blacklist, agent, pc, number, state, output, perfData, queries, verdict,
      exitCode, error, pre, last, conv, snmp>>

\* The utilities when nothing has called them on their own.
noConversion ==
    [number |-> 0, binary |-> <<>>, integer |-> [raised |-> "", value |-> 0]]
noParse ==
    [snmp_command |-> "", output |-> <<>>, raised |-> "", final_output |-> <<>>]

snapshot == [state |-> state, output |-> output, perfData |-> perfData,
             queries |-> queries]

\* CheckInfortrend.__init__
Constructed(list, answers) ==
    /\ blacklist = list
    /\ agent = answers
    /\ state = [critical |-> 0, unknown |-> 0, warning |-> 0]
    /\ output = <<>>
    /\ perfData = <<>>
    /\ queries = <<>>
    /\ verdict = ""
    /\ exitCode = -1
    /\ error = ""
    /\ number = 0
    /\ pre = [state |-> [critical |-> 0, unknown |-> 0, warning |-> 0],
              output |-> <<>>, perfData |-> <<>>, queries |-> <<>>]
    /\ last = [op |-> "__init__", number |-> 0]

\* A run starts with one of: a single reading; an array of readings under
\* a blacklist; an array whose lists differ in length; drive status lists;
\* logical-drive status lists.
Init ==
    /\ pc = "auto_detect"
    /\ conv = noConversion
    /\ snmp = noParse
    /\ \/ \E r \in AllStatusReadings \cup AllValueReadings :
            Constructed(<<>>, agentOf(<<r>>, <<>>, <<>>))
       \/ \E b \in Blacklists, rs \in SeqsUpTo(ArrayReadings, MaxDevices) :
            Constructed(b, agentOf(rs, <<>>, <<>>))
       \/ \E a \in ShapedAgents : Constructed(<<>>, a)
       \/ \E b \in DriveBlacklists, lds \in {<<>>, <<4, 1>>},
             hdds \in SeqsUpTo(HddCodes, MaxDrives) :
            Constructed(b, agentOf(<<>>, lds, hdds))
       \/ \E lds \in SeqsUpTo(LdCodes, MaxDrives), hdds \in {<<>>, <<255>>} :
            Constructed(<<>>, agentOf(<<reading("Door", 9, 66, 0, 0)>>, lds, hdds))
       \/ \E b \in {<<>>, <<"absent_drives">>}, code \in StatusWords :
            Constructed(b, agentOf(<<>>, <<>>, <<code>>))
       \/ \E code \in StatusWords :
            Constructed(<<>>, agentOf(<<>>, <<code>>, <<>>))

(***************************************************************************)
(* Steps of check_all                                                      *)
(***************************************************************************)
\* Where check_all goes after a stage, skipping loops over empty lists.
afterHdd ==
    IF Len(agent.luDevType) > 0 THEN "check_device_status" ELSE "parse_print_exit"
afterLd ==
    IF Len(agent.hddStatus) > 0 THEN "_check_hdd_status" ELSE afterHdd
afterCounts ==
    IF Len(agent.ldStatus) > 0 THEN "_check_ld_status" ELSE afterLd

\* Mutant: an exception is counted in self.state['unknown'].
apply_countsExceptions(effect, op, done, next) ==
    /\ state' = [state EXCEPT !.critical = @ + effect.critical,
                              !.warning = @ + effect.warning,
                              !.unknown = IF effect.error # "" THEN @ + 1 ELSE @]
    /\ output' = output \o effect.lines
    /\ perfData' = perfData \o effect.perf
    /\ pre' = snapshot
    /\ last' = [op |-> op, number |-> number + 1]
    /\ IF effect.error # ""
       THEN /\ error' = effect.error
            /\ exitCode' = UncaughtExit
            /\ pc' = "exit"
            /\ number' = number + 1
       ELSE /\ UNCHANGED <<error, exitCode>>
            /\ pc' = IF done THEN next ELSE pc
            /\ number' = IF done THEN 0 ELSE number + 1
    /\ UNCHANGED <<conv, snmp, blacklist, agent, verdict>>

\* Mutant: the new lines and samples are put in front of the old ones.
apply_inFront(effect, op, done, next) ==
    /\ state' = [state EXCEPT !.critical = @ + effect.critical,
                              !.warning = @ + effect.warning]
    /\ output' = effect.lines \o output
    /\ perfData' = effect.perf \o perfData
    /\ pre' = snapshot
    /\ last' = [op |-> op, number |-> number + 1]
    /\ IF effect.error # ""
       THEN /\ error' = effect.error
            /\ exitCode' = UncaughtExit
            /\ pc' = "exit"
            /\ number' = number + 1
       ELSE /\ UNCHANGED <<error, exitCode>>
            /\ pc' = IF done THEN next ELSE pc
            /\ number' = IF done THEN 0 ELSE number + 1
    /\ UNCHANGED <<conv, snmp, blacklist, agent, verdict>>

\* The effect of a classifier or loop body on the aggregator; an exception
\* propagates out of check_all and ends the process.
apply(effect, op, done, next) ==
    /\ state' = [state EXCEPT !.critical = @ + effect.critical,
                              !.warning = @ + effect.warning]
    /\ output' = output \o effect.lines
    /\ perfData' = perfData \o effect.perf
    /\ pre' = snapshot
    /\ last' = [op |-> op, number |-> number + 1]
    /\ IF effect.error # ""
       THEN /\ error' = effect.error
            /\ exitCode' = UncaughtExit
            /\ pc' = "exit"
            /\ number' = number + 1
       ELSE /\ UNCHANGED <<error, exitCode>>
            /\ pc' = IF done THEN next ELSE pc
            /\ number' = IF done THEN 0 ELSE number + 1
    /\ UNCHANGED <<conv, snmp, blacklist, agent, verdict>>

\* The lines check_model_firmware appends; the agent's answer to a query is
\* written <oid>.
modelFirmwareLines ==
    <<"Vendor:" \o "<1.1.1.14.0>", "Model:" \o "<1.1.1.13.0>",
      "Serial Number: " \o "<1.1.1.10.0>",
      "Firmware Version:" \o "<1.1.1.4.0>" \o "." \o "<1.1.1.5.0>">>

\* The three count lines check_drive_status appends.
driveCountLines ==
    <<"Logical Drives:" \o "<1.2.1.8>", "Spare Drives:" \o "<1.2.1.10>",
      "Failed Drives:" \o "<1.2.1.11>">>

auto_detect ==
    /\ pc = "auto_detect"
    /\ \E found \in BOOLEAN :
        IF found
        THEN pc' = "check_model_firmware" /\ UNCHANGED exitCode
        ELSE pc' = "exit" /\ exitCode' = CRITICAL
    /\ pre' = snapshot
    /\ last' = [op |-> "auto_detect", number |-> 0]
    /\ UNCHANGED <<conv, snmp, blacklist, agent, number, state, output, perfData, queries,
                   verdict, error>>

check_model_firmware ==
    /\ pc = "check_model_firmware"
    /\ output' = output \o modelFirmwareLines
    /\ pc' = "check_drive_status"
    /\ pre' = snapshot
    /\ last' = [op |-> "check_model_firmware", number |-> 0]
    /\ UNCHANGED <<conv, snmp, blacklist, agent, number, state, perfData, queries, verdict,
                   exitCode, error>>

\* The three count lines of check_drive_status; the two status loops follow.
check_drive_status ==
    /\ pc = "check_drive_status"
    /\ output' = output \o driveCountLines
    /\ pc' = afterCounts
    /\ pre' = snapshot
    /\ last' = [op |-> "check_drive_status", number |-> 0]
    /\ UNCHANGED <<conv, snmp, blacklist, agent, number, state, perfData, queries, verdict,
                   exitCode, error>>

check_ld_status ==
    /\ pc = "_check_ld_status"
    /\ apply(ldEffect(number, agent.ldStatus[number + 1]), "_check_ld_status",
             number + 1 = Len(agent.ldStatus), afterLd)
    /\ UNCHANGED queries

check_hdd_status ==
    /\ pc = "_check_hdd_status"
    /\ LET e == hddEffect(blacklist, number, agent.hddStatus[number + 1]) IN
        /\ apply(e, "_check_hdd_status", number + 1 = Len(agent.hddStatus), afterHdd)
        /\ queries' = queries \o e.queries

check_device_status ==
    /\ pc = "check_device_status"
    /\ apply(deviceEffect(blacklist, agent, number + 1), "check_device_status",
             number + 1 = Len(agent.luDevType), "parse_print_exit")
    /\ UNCHANGED queries

parse_print_exit ==
    /\ pc = "parse_print_exit"
    /\ verdict' = verdictOf(state)
    /\ exitCode' = evalStatus(verdictOf(state))
    /\ pc' = "exit"
    /\ pre' = snapshot
    /\ last' = [op |-> "parse_print_exit", number |-> 0]
    /\ UNCHANGED <<conv, snmp, blacklist, agent, number, state, output, perfData, queries, error>>

Next ==
    \/ auto_detect
    \/ check_model_firmware
    \/ check_drive_status
    \/ check_ld_status
    \/ check_hdd_status
    \/ check_device_status
    \/ parse_print_exit

Spec == Init /\ [][Next]_vars

(***************************************************************************)
(* parse_print_exit on its own, for every value of the counters            *)
(***************************************************************************)
InitVerdict ==
    /\ pc = "parse_print_exit"
    /\ \E c \in 0..MaxCount, w \in 0..MaxCount, u \in 0..MaxCount :
        /\ state = [critical |-> c, unknown |-> u, warning |-> w]
        /\ pre = [state |-> state, output |-> <<>>, perfData |-> <<>>,
                  queries |-> <<>>]
    /\ blacklist = <<>>
    /\ agent = agentOf(<<>>, <<>>, <<>>)
    /\ output = <<>>
    /\ perfData = <<>>
    /\ queries = <<>>
    /\ verdict = ""
    /\ exitCode = -1
    /\ error = ""
    /\ number = 0
    /\ last = [op |-> "check_device_status", number |-> 0]
    /\ conv = noConversion
    /\ snmp = noParse

SpecVerdict == InitVerdict /\ [][parse_print_exit]_vars

(***************************************************************************)
(* The two bitfield utilities on their own: a number is converted to its   *)
(* digits and the digits are converted back.                               *)
(***************************************************************************)
runVars ==
    <<blacklist, agent, number, state, output, perfData, queries, verdict,
      exitCode, error, pre, last>>

InitConvert ==
    /\ pc = "_convertIntegerToBinaryAndFormat"
    /\ Constructed(<<>>, agentOf(<<>>, <<>>, <<>>))
    /\ \E n \in StatusWords : conv = [noConversion EXCEPT !.number = n]
    /\ snmp = noParse

call_convertIntegerToBinaryAndFormat ==
    /\ pc = "_convertIntegerToBinaryAndFormat"
    /\ conv' = [conv EXCEPT !.binary = convertIntegerToBinaryAndFormat(conv.number)]
    /\ pc' = "_convertBinarytoInteger"
    /\ UNCHANGED <<runVars, snmp>>

call_convertBinarytoInteger ==
    /\ pc = "_convertBinarytoInteger"
    /\ conv' = [conv EXCEPT !.integer = convertBinarytoInteger(conv.binary)]
    /\ pc' = "converted"
    /\ UNCHANGED <<runVars, snmp>>

NextConvert ==
    \/ call_convertIntegerToBinaryAndFormat
    \/ call_convertBinarytoInteger

SpecConvert == InitConvert /\ [][NextConvert]_vars

(***************************************************************************)
(* Snmp._parse_snmp_output on its own, for every raw output                *)
(***************************************************************************)
InitParse ==
    /\ pc = "_parse_snmp_output"
    /\ Constructed(<<>>, agentOf(<<>>, <<>>, <<>>))
    /\ conv = noConversion
    /\ \E c \in {"snmpget", "snmpwalk"}, o \in RawOutputs :
           snmp = [noParse EXCEPT !.snmp_command = c, !.output = o]

call_parse_snmp_output ==
    /\ pc = "_parse_snmp_output"
    /\ LET r == parse_snmp_output(snmp.snmp_command, snmp.output) IN
           snmp' = [snmp EXCEPT !.raised = r.raised,
                                !.final_output = r.final_output]
    /\ pc' = "parsed"
    /\ UNCHANGED <<runVars, conv>>

SpecParse == InitParse /\ [][call_parse_snmp_output]_vars

(***************************************************************************)
(* Vocabulary of the properties                                            *)
(***************************************************************************)
\* The last step was a pass of the device loop.
DeviceStep == last.op = "check_device_status"

\* The reading that pass was given (the type list always has the entry).
LastType == agent.luDevType[last.number]
ListsReach ==
    /\ last.number <= Len(agent.luDevDescription)
    /\ last.number <= Len(agent.luDevStatus)
    /\ last.number <= Len(agent.luDevValue)
    /\ last.number <= Len(agent.luDevValueUnit)
LastDescription == agent.luDevDescription[last.number]
LastStatus == agent.luDevStatus[last.number]
LastValue == agent.luDevValue[last.number]
LastUnit == agent.luDevValueUnit[last.number]

Tagged(t) == t \in DOMAIN blacklistoptions
InBlacklist(tag) == \E i \in DOMAIN blacklist : blacklist[i] = tag

\* The last step handed a reading of type t to its classifier.
Classified(t) ==
    /\ DeviceStep
    /\ LastType = t
    /\ Tagged(t)
    /\ ~InBlacklist(blacklistoptions[t])
    /\ ListsReach

\* What the last step added.
NewLines == SubSeq(output, Len(pre.output) + 1, Len(output))
NewSamples == SubSeq(perfData, Len(pre.perfData) + 1, Len(perfData))
NewCritical == state.critical - pre.state.critical
NewWarning == state.warning - pre.state.warning
NothingAdded ==
    /\ state = pre.state
    /\ output = pre.output
    /\ perfData = pre.perfData
    /\ queries = pre.queries

\* The last step added exactly what effect e describes, after what was there.
Added(e) ==
    /\ output = pre.output \o e.lines
    /\ perfData = pre.perfData \o e.perf
    /\ NewCritical = e.critical
    /\ NewWarning = e.warning
    /\ state.unknown = pre.state.unknown
    /\ error = e.error

EqualLengths ==
    /\ Len(agent.luDevDescription) = Len(agent.luDevType)
    /\ Len(agent.luDevStatus) = Len(agent.luDevType)
    /\ Len(agent.luDevValue) = Len(agent.luDevType)
    /\ Len(agent.luDevValueUnit) = Len(agent.luDevType)

\* The run got past auto detection and has ended.
RunEnded == pc = "exit" /\ last.op # "auto_detect"

(***************************************************************************)
(* C1  parse_print_exit derives the verdict from the counters by strict    *)
(* precedence, for every combination of counter values: CRITICAL (exit 2)  *)
(* if critical > 0, else WARNING (exit 1) if warning > 0, else UNKNOWN     *)
(* (exit 3) if unknown > 0, else OK (exit 0).                              *)
(***************************************************************************)
C1_VerdictPrecedence ==
    last.op = "parse_print_exit" =>
        /\ state.critical > 0 => verdict = "CRITICAL" /\ exitCode = 2
        /\ state.critical = 0 /\ state.warning > 0 =>
               verdict = "WARNING" /\ exitCode = 1
        /\ state.critical = 0 /\ state.warning = 0 /\ state.unknown > 0 =>
               verdict = "UNKNOWN" /\ exitCode = 3
        /\ state.critical = 0 /\ state.warning = 0 /\ state.unknown = 0 =>
               verdict = "OK" /\ exitCode = 0

C1_Witness ==
    /\ last.op = "parse_print_exit"
    /\ state = [critical |-> 1, unknown |-> 1, warning |-> 5]
    /\ verdict = "CRITICAL"
    /\ exitCode = 2

(***************************************************************************)
(* C2  A reading whose category tag is in the blacklist leaves counters,   *)
(* findings and samples unchanged; a reading of a category that is not     *)
(* blacklisted adds what it would add under an empty blacklist.            *)
(***************************************************************************)
C2_BlacklistFrame ==
    DeviceStep =>
        /\ Tagged(LastType) /\ InBlacklist(blacklistoptions[LastType]) =>
               NothingAdded /\ error = ""
        /\ ~(Tagged(LastType) /\ InBlacklist(blacklistoptions[LastType])) =>
               Added(deviceEffect(<<>>, agent, last.number))

\* Under the blacklist temp_sensor/absent_drives the array [type 8, door 66]
\* has been walked: no sample, the door's two warnings.
C2_Witness ==
    /\ DeviceStep
    /\ last.number = 2
    /\ InBlacklist("temp_sensor")
    /\ agent.luDevType = <<8, 9>>
    /\ agent.luDevStatus = <<6, 66>>
    /\ perfData = <<>>
    /\ state.warning = 2
    /\ Len(NewLines) = 1

(***************************************************************************)
(* C3  Every bit-decoding classifier completes without raising an error    *)
(* for every nonzero status word, however short: missing bits count as not *)
(* set and a numeral check on a missing bit range is skipped.              *)
(***************************************************************************)
BitDecodingTypes == {1, 2, 3, 4, 5, 6, 8, 9, 10, 11, 12, 13, 14, 17, 18, 31}

C3_ShortStatusWordsNeverRaise ==
    \A t \in BitDecodingTypes :
        Classified(t) /\ LastStatus # 0 /\ LastValue = 0 /\ LastUnit = 0 =>
            error = ""

(***************************************************************************)
(* C4  Each input-shape error of a device snapshot (lists of different     *)
(* lengths, a type code without classifier, a fan value above 10000 after  *)
(* masking that the legacy table lacks) ends the run with the verdict      *)
(* Unknown and exit code 3.                                                *)
(***************************************************************************)
Masked(v) == IF v > 65535 THEN v % 65536 ELSE v

InputShapeError ==
    \/ ~EqualLengths
    \/ \E i \in DOMAIN agent.luDevType :
           agent.luDevType[i] \notin
               {1, 2, 3, 4, 5, 6, 8, 9, 10, 11, 12, 13, 14, 15, 17, 18, 31}
    \/ \E i \in DOMAIN agent.luDevType :
           /\ agent.luDevType[i] = 2
           /\ i \in DOMAIN agent.luDevValue
           /\ Masked(agent.luDevValue[i]) > 10000
           /\ Masked(agent.luDevValue[i]) # 12292

C4_ShapeErrorsGiveUnknown ==
    RunEnded /\ blacklist = <<>> /\ InputShapeError =>
        verdict = "UNKNOWN" /\ exitCode = 3

(***************************************************************************)
(* C5  With one unmapped type code in the array, every other reading is    *)
(* still evaluated, with the findings, samples and counter increments the  *)
(* array without that reading gives, and the final verdict is not OK.      *)
(***************************************************************************)
\* The device loop on its own: the effects of the readings of array a from
\* position n on, added to acc; an exception ends the loop.
RECURSIVE deviceLoop(_, _, _, _)
deviceLoop(list, a, n, acc) ==
    IF n > Len(a.luDevType) \/ acc.error # "" THEN acc
    ELSE LET e == deviceEffect(list, a, n) IN
         deviceLoop(list, a, n + 1,
                    [lines |-> acc.lines \o e.lines, perf |-> acc.perf \o e.perf,
                     critical |-> acc.critical + e.critical,
                     warning |-> acc.warning + e.warning, error |-> e.error])

without(seq, i) == SubSeq(seq, 1, i - 1) \o SubSeq(seq, i + 1, Len(seq))

agentWithout(a, i) ==
    [a EXCEPT !.luDevDescription = without(@, i), !.luDevType = without(@, i),
              !.luDevValue = without(@, i), !.luDevValueUnit = without(@, i),
              !.luDevStatus = without(@, i)]

Unmapped(t) == t \notin {1, 2, 3, 4, 5, 6, 8, 9, 10, 11, 12, 13, 14, 15, 17, 18, 31, 99}

C5_UnmappedReadingIsLocal ==
    \A i \in DOMAIN agent.luDevType :
        /\ RunEnded
        /\ blacklist = <<>>
        /\ EqualLengths
        /\ agent.ldStatus = <<>> /\ agent.hddStatus = <<>>
        /\ Unmapped(agent.luDevType[i])
        /\ \A j \in DOMAIN agent.luDevType : j # i => ~Unmapped(agent.luDevType[j])
        /\ deviceLoop(<<>>, agentWithout(agent, i), 1, NoEffect).error = ""
        => LET rest == deviceLoop(<<>>, agentWithout(agent, i), 1, NoEffect) IN
           /\ output = modelFirmwareLines \o driveCountLines \o rest.lines
           /\ perfData = rest.perf
           /\ state.critical = rest.critical
           /\ state.warning = rest.warning
           /\ verdict # "OK"
           /\ exitCode # 0

(***************************************************************************)
(* C6  A UPS reading with status 255 adds no finding and no sample and     *)
(* leaves the three counters unchanged, for every description, value and   *)
(* unit.                                                                   *)
(***************************************************************************)
C6_Ups255IsIgnored ==
    Classified(4) /\ LastStatus = 255 => NothingAdded /\ error = ""

C6_Witness ==
    /\ Classified(4)
    /\ LastStatus = 255
    /\ LastDescription = "CPU"
    /\ LastValue = 500
    /\ LastUnit = 1000
    /\ NothingAdded

(***************************************************************************)
(* C7  For every physical drive: status 255 adds one Critical, a 'Failed   *)
(* Drive' finding and one model and one serial-number lookup for that      *)
(* drive, whatever the blacklist; status 63 does the same with 'Drive      *)
(* Absent' unless 'absent_drives' is blacklisted, and then adds no counter,*)
(* no line and no lookup.                                                  *)
(***************************************************************************)
DriveStep == last.op = "_check_hdd_status"
LastDriveStatus == agent.hddStatus[last.number]

\* The step added one Critical, the finding msg for the drive and the two
\* lookups with their answers.
FailedOrAbsent(msg) ==
    /\ NewCritical = 1
    /\ NewWarning = 0
    /\ state.unknown = pre.state.unknown
    /\ Len(NewLines) = 3
    /\ NewLines[1] = "Drive " \o str(last.number) \o ": " \o msg
    /\ queries = pre.queries \o <<"1.6.1.15." \o str(last.number),
                                  "1.6.1.17." \o str(last.number)>>

C7_FailedAndAbsentDrives ==
    DriveStep =>
        /\ LastDriveStatus = 255 => FailedOrAbsent("Failed Drive")
        /\ LastDriveStatus = 63 /\ ~InBlacklist("absent_drives") =>
               FailedOrAbsent("Drive Absent")
        /\ LastDriveStatus = 63 /\ InBlacklist("absent_drives") => NothingAdded

\* With absent_drives blacklisted, drive 1 (63) was skipped and drive 2 (255)
\* reported and looked up.
C7_Witness ==
    /\ DriveStep
    /\ last.number = 2
    /\ agent.hddStatus = <<63, 255>>
    /\ InBlacklist("absent_drives")
    /\ state.critical = 1
    /\ queries = <<"1.6.1.15.2", "1.6.1.17.2">>

(***************************************************************************)
(* C8  For every fan reading that is not blacklisted, whatever its status  *)
(* word: a computed speed >= 5800 rpm adds a 'Fan speed is >= 5800'        *)
(* finding and one Critical; otherwise a speed >= 5713 rpm adds a 'Fan     *)
(* speed is >= 5713' finding and one Warning; below 5713 no speed finding. *)
(***************************************************************************)
Bit(status, k) == (status \div (2 ^ (k - 1))) % 2

\* The lines the fan classifier adds hold one more line, for the speed, than
\* the status word alone gives.
SpeedFinding == Len(NewLines) = (IF LastStatus # 0 THEN 1 ELSE 0) + 1

C8_FanSpeedThresholds ==
    Classified(2) /\ error = "" =>
        LET speed == NewSamples[1].value
            bitCritical == Bit(LastStatus, 1) + Bit(LastStatus, 8)
            bitWarning == Bit(LastStatus, 7)
        IN /\ speed >= 5800 =>
                /\ SpeedFinding
                /\ NewCritical = bitCritical + 1
                /\ NewWarning = bitWarning
           /\ speed >= 5713 /\ speed < 5800 =>
                /\ SpeedFinding
                /\ NewCritical = bitCritical
                /\ NewWarning = bitWarning + 1
           /\ speed < 5713 =>
                /\ ~SpeedFinding
                /\ NewCritical = bitCritical
                /\ NewWarning = bitWarning

(***************************************************************************)
(* C9  The fan speed is a function of the raw value and the unit only.     *)
(* As stated: raw 12292 gives 4000 rpm for every unit, raw 500 with unit 0 *)
(* gives 4571 rpm, raw 500 with unit 1 gives 500 rpm.                      *)
(* As amended: raw 12292 gives 4000 rpm for every unit, raw 0 with unit 0  *)
(* gives 4571 rpm, raw 500 with unit 1 gives 500 rpm, and raw 500 with     *)
(* unit 0 is no index of the relative-speed table: the lookup raises       *)
(* KeyError and no speed is reported.                                      *)
(***************************************************************************)
\* The fan classifier reported the speed rpm in its sample.
FanSample(rpm) ==
    /\ error = ""
    /\ Len(NewSamples) = 1
    /\ NewSamples[1].value = rpm
    /\ NewSamples[1].label = LastDescription

C9_FanSpeedAsStated ==
    Classified(2) =>
        /\ LastValue = 12292 => FanSample(4000)
        /\ LastValue = 500 /\ LastUnit = 0 => FanSample(4571)
        /\ LastValue = 500 /\ LastUnit = 1 => FanSample(500)

C9_FanSpeedOfValueAndUnit ==
    Classified(2) =>
        /\ LastValue = 12292 => FanSample(4000)
        /\ LastValue = 0 /\ LastUnit = 0 => FanSample(4571)
        /\ LastValue = 500 /\ LastUnit = 1 => FanSample(500)
        /\ LastValue = 500 /\ LastUnit = 0 =>
               error = "KeyError" /\ NothingAdded
        /\ LET speed == fanSpeed(LastValue, LastUnit) IN
           IF speed.raised = "" THEN FanSample(speed.value)
           ELSE error = speed.raised /\ NothingAdded

\* A fan with status 64, raw value 500 and unit 1
\* reported 500 rpm in its sample.
C9_Witness ==
    /\ Classified(2)
    /\ LastValue = 500
    /\ LastUnit = 1
    /\ LastStatus = 64
    /\ FanSample(500)

(***************************************************************************)
(* C10  The temperature depends only on the raw value and the unit: raw 0  *)
(* gives 0 for every unit; a raw value above 0xFFFF is first shifted right *)
(* by 16 bits, a shifted value of 0 gives 0 and otherwise the formula is   *)
(* applied to the shifted value; raw 547603968 with unit 1000 gives a      *)
(* value in [-273, 10000].                                                 *)
(***************************************************************************)
\* The temperature classifier reported celsius in its sample; the sample is
\* appended before the status word is decoded.
TempSample(celsius) ==
    /\ Len(NewSamples) = 1
    /\ NewSamples[1].value = celsius
    /\ NewSamples[1].label = LastDescription

Reported == NewSamples[1].value

C10_TemperatureOfValueAndUnit ==
    \A t \in {3, 8} :
        Classified(t) =>
            /\ TempSample(temperature(LastValue, LastUnit))
            /\ LastValue = 0 => Reported = 0
            /\ LastValue > 65535 =>
                   LET shifted == LastValue \div 65536 IN
                   Reported = IF shifted = 0 THEN 0
                              ELSE temperature(shifted, LastUnit)
            /\ LastValue = 547603968 /\ LastUnit = 1000 =>
                   Reported >= -273 /\ Reported <= 10000

C10_Witness ==
    /\ Classified(8)
    /\ LastValue = 547603968
    /\ LastUnit = 1000
    /\ TempSample(8082)

(***************************************************************************)
(* C11  For every status word s >= 0, _convertIntegerToBinaryAndFormat     *)
(* returns a digit sequence with no leading zero padding whose length is   *)
(* floor(log2(s))+1 for s > 0; converting the sequence back with           *)
(* _convertBinarytoInteger gives s.  For s = 0 the claim as stated has the *)
(* sequence empty (C11_AsStated); the code returns the single digit '0'    *)
(* (C11_BinaryDigits).                                                     *)
(***************************************************************************)
\* floor(log2(s)) + 1 for s > 0: the L with 2^(L-1) <= s < 2^L.
BitLength(s) == CHOOSE L \in 1..(s + 1) : 2^(L - 1) <= s /\ s < 2^L

Converted == pc \in {"_convertBinarytoInteger", "converted"}
ConvertedBack == pc = "converted"

DigitsOfPositive ==
    Converted /\ conv.number > 0 =>
        /\ Len(conv.binary) = BitLength(conv.number)
        /\ conv.binary[1] = "1"
        /\ \A i \in DOMAIN conv.binary : conv.binary[i] \in {"0", "1"}

RoundTripOfPositive ==
    ConvertedBack /\ conv.number > 0 =>
        conv.integer = [raised |-> "", value |-> conv.number]

\* C11 as stated: the sequence is empty for s = 0.
C11_AsStated ==
    /\ DigitsOfPositive
    /\ RoundTripOfPositive
    /\ Converted /\ conv.number = 0 => conv.binary = <<>>

\* C11 amended: the sequence is the single digit '0' for s = 0, and the
\* round trip gives 0 for it.
C11_BinaryDigits ==
    /\ DigitsOfPositive
    /\ RoundTripOfPositive
    /\ Converted /\ conv.number = 0 => conv.binary = <<"0">>
    /\ ConvertedBack /\ conv.number = 0 =>
           conv.integer = [raised |-> "", value |-> 0]

C11_Witness ==
    /\ ConvertedBack
    /\ conv.number = 66
    /\ conv.binary = <<"1", "0", "0", "0", "0", "1", "0">>
    /\ conv.integer.value = 66

(***************************************************************************)
(* C12  For every door status word, with bit positions counted from the    *)
(* least-significant end starting at 1: bit 1 adds a malfunction finding   *)
(* and one Critical, bit 2 adds 'Door is open' and one Warning, bit 7 adds *)
(* 'Door lock not engaged' and one Warning, bit 8 adds 'Door is not        *)
(* present' and one Critical, and no other bit has any effect.  The array  *)
(* [(type 9, status 66, value 0, unit 0)] gives a finding with 'Door is    *)
(* open', without 'Door is not present', and the verdict Warning.          *)
(***************************************************************************)
\* The messages of a door status word, a function of bits 1, 2, 7 and 8 only.
DoorMessages(status) ==
    (IF Bit(status, 1) = 1
     THEN <<"Door, door lock, or door sensor malfunctioning">> ELSE <<>>)
    \o (IF Bit(status, 2) = 1 THEN <<"Door is open">> ELSE <<>>)
    \o (IF Bit(status, 7) = 1 THEN <<"Door lock not engaged">> ELSE <<>>)
    \o (IF Bit(status, 8) = 1 THEN <<"Door is not present">> ELSE <<>>)

\* The run was given one door reading with status 0b1000010 and nothing else.
OneOpenDoor ==
    /\ agent.luDevType = <<9>>
    /\ agent.luDevStatus = <<66>>
    /\ agent.luDevValue = <<0>>
    /\ agent.luDevValueUnit = <<0>>
    /\ Len(agent.luDevDescription) = 1
    /\ agent.ldStatus = <<>>
    /\ agent.hddStatus = <<>>
    /\ ~InBlacklist("door")

C12_DoorBits ==
    /\ Classified(9) =>
        /\ error = ""
        /\ NewCritical = Bit(LastStatus, 1) + Bit(LastStatus, 8)
        /\ NewWarning = Bit(LastStatus, 2) + Bit(LastStatus, 7)
        /\ NewSamples = <<>>
        /\ NewLines =
              IF LastStatus = 0 THEN <<>>
              ELSE <<join(<<LastDescription \o ":">> \o DoorMessages(LastStatus))>>
    /\ OneOpenDoor /\ last.op = "parse_print_exit" =>
        /\ output[Len(output)] =
              agent.luDevDescription[1] \o ": Door is open Door lock not engaged"
        /\ state = [critical |-> 0, unknown |-> 0, warning |-> 2]
        /\ verdict = "WARNING"
        /\ exitCode = 1

C12_Witness ==
    /\ OneOpenDoor
    /\ last.op = "parse_print_exit"
    /\ output[Len(output)] = "Door: Door is open Door lock not engaged"
    /\ verdict = "WARNING"

(***************************************************************************)
(* C13  After check_device_status has processed a device array without     *)
(* error, perfData holds exactly one sample for each non-blacklisted fan   *)
(* reading (type 2; warn 5713, crit 5800, min 0, max 6000) and each        *)
(* non-blacklisted temperature reading (types 3 and 8; 70, 80, 0, 100), in *)
(* device order, whatever the status, and none for any other type.  A      *)
(* reading with status 0 adds no finding and changes no counter; the array *)
(* [(type 2, status 0, value 12292, unit -1)] with an empty blacklist      *)
(* gives one sample of value 4000, no device finding and the verdict OK.   *)
(***************************************************************************)
\* Label and thresholds of the samples the first n readings should leave.
RECURSIVE ExpectedSamples(_)
ExpectedSamples(n) ==
    IF n = 0 THEN <<>>
    ELSE ExpectedSamples(n - 1) \o
         (IF agent.luDevType[n] = 2 /\ ~InBlacklist("fan")
          THEN <<[label |-> agent.luDevDescription[n], warn |-> "5713",
                  crit |-> "5800", min |-> "0", max |-> "6000"]>>
          ELSE IF agent.luDevType[n] \in {3, 8} /\ ~InBlacklist("temp_sensor")
          THEN <<[label |-> agent.luDevDescription[n], warn |-> "70",
                  crit |-> "80", min |-> "0", max |-> "100"]>>
          ELSE <<>>)

\* perfData without the values.
SampleShapes ==
    [i \in DOMAIN perfData |->
        [label |-> perfData[i].label, warn |-> perfData[i].warn,
         crit |-> perfData[i].crit, min |-> perfData[i].min,
         max |-> perfData[i].max]]

\* The device loop has returned to check_all.
DeviceLoopDone ==
    /\ error = ""
    /\ pc = "parse_print_exit" \/ last.op = "parse_print_exit"

OneIdleFan ==
    /\ agent.luDevType = <<2>>
    /\ agent.luDevStatus = <<0>>
    /\ agent.luDevValue = <<12292>>
    /\ agent.luDevValueUnit = <<-1>>
    /\ Len(agent.luDevDescription) = 1
    /\ agent.ldStatus = <<>>
    /\ agent.hddStatus = <<>>
    /\ blacklist = <<>>

ClassifierTypes == {1, 2, 3, 4, 5, 6, 8, 9, 10, 11, 12, 13, 14, 15, 17, 18, 31}

\* A fan value the tables decode: 12292 after masking, or an index 0..7 of
\* the relative table under unit 0 or -1, or anything under another unit.
DecodableFan(value, unit) ==
    \/ Masked(value) = 12292
    \/ Masked(value) <= 10000 /\ unit \in {0, -1} /\ Masked(value) \in 0..7
    \/ Masked(value) <= 10000 /\ unit \notin {0, -1}

WellShapedSnapshot ==
    /\ EqualLengths
    /\ \A i \in DOMAIN agent.luDevType :
        /\ agent.luDevType[i] \in ClassifierTypes
        /\ agent.luDevType[i] = 2 =>
               DecodableFan(agent.luDevValue[i], agent.luDevValueUnit[i])

C14_RunReachesVerdict ==
    RunEnded /\ WellShapedSnapshot =>
        /\ last.op = "parse_print_exit"
        /\ error = ""
        /\ verdict \in {"OK", "WARNING", "CRITICAL", "UNKNOWN"}

(***************************************************************************)
(* C15  Across a run self.output and self.perfData are append-only: every  *)
(* check operation leaves the entries already present unchanged and in     *)
(* place and adds its own after them, so device findings appear in device  *)
(* enumeration order, and the messages of one device appear in the order   *)
(* of its bit checks, lowest bit position first.                           *)
(***************************************************************************)
\* seq begins with the whole of old.
Extends(seq, old) ==
    Len(seq) >= Len(old) /\ SubSeq(seq, 1, Len(old)) = old

\* The run was given exactly these types and status words, and no drives.
DevicesAre(types, statuses) ==
    /\ agent.luDevType = types
    /\ agent.luDevStatus = statuses
    /\ EqualLengths
    /\ agent.ldStatus = <<>>
    /\ agent.hddStatus = <<>>

C15_AppendOnly ==
    /\ Extends(output, pre.output)
    /\ Extends(perfData, pre.perfData)
    /\ DeviceStep /\ last.number > 1 => Extends(pre.output, modelFirmwareLines)
    \* device enumeration order
    /\ DeviceLoopDone /\ agent.ldStatus = <<>> /\ agent.hddStatus = <<>> =>
        /\ output = modelFirmwareLines \o driveCountLines
                      \o deviceLoop(blacklist, agent, 1, NoEffect).lines
        /\ perfData = deviceLoop(blacklist, agent, 1, NoEffect).perf
    /\ DeviceLoopDone /\ DevicesAre(<<1, 9>>, <<129, 66>>) =>
           SubSeq(output, 8, Len(output)) =
               <<agent.luDevDescription[1] \o
                     ": Power supply is malfunctioning Power supply is not present",
                 agent.luDevDescription[2] \o
                     ": Door is open Door lock not engaged">>
    /\ DeviceLoopDone /\ DevicesAre(<<9, 1>>, <<66, 129>>) =>
           SubSeq(output, 8, Len(output)) =
               <<agent.luDevDescription[1] \o
                     ": Door is open Door lock not engaged",
                 agent.luDevDescription[2] \o
                     ": Power supply is malfunctioning Power supply is not present">>
    \* bit-check order within one device
    /\ Classified(9) /\ LastStatus = 255 =>
           NewLines = <<LastDescription \o
               ": Door, door lock, or door sensor malfunctioning Door is open"
               \o " Door lock not engaged Door is not present">>
    /\ Classified(17) /\ LastStatus = 255 =>
           NewLines = <<LastDescription \o
               ": Slot sense circuitry is malfunctioning"
               \o " Device in slot has been marked bad and is awaiting a replacement"
               \o " Slot is not activated Slot is ready for insertion/removal"
               \o " Slot is empty">>
    /\ Classified(5) /\ LastStatus = 197 =>
           NewLines = <<LastDescription \o
               ": Voltage sensor is malfunctioning Low voltage warning"
               \o " Voltage sensor is not activated"
               \o " Voltage sensor is not present">>

\* The second device of an array has added its line after the first one's.
C15_Witness ==
    /\ DeviceStep
    /\ last.number = 2
    /\ DevicesAre(<<9, 1>>, <<66, 129>>)
    /\ Len(pre.output) = 8
    /\ pre.output[8] = "Door: Door is open Door lock not engaged"
    /\ output[9] = "PSU: Power supply is malfunctioning Power supply is not present"

(***************************************************************************)
(* C16  _parse_snmp_output returns, for 'snmpwalk', a list with exactly    *)
(* one element per line of the raw output, in line order, and for          *)
(* 'snmpget' the single parsed value of the first line; a line             *)
(* 'INTEGER: n' yields the integer n and a line 'STRING: "text"' the text  *)
(* without the surrounding quotes and leading/trailing whitespace.  As     *)
(* stated, any other line is returned unchanged as a string                *)
(* (C16_AsStated); in the code that is so only for a line that does not    *)
(* split at ':' into exactly two parts (C16_ParsedValues).                 *)
(***************************************************************************)
ParsedCall == pc = "parsed"

\* The lines of the raw output, by the positions of its newlines.
Newlines == {i \in DOMAIN snmp.output : snmp.output[i] = "\n"}
NumLines == Cardinality(Newlines) + 1
LineEnd(k) ==
    IF k = 0 THEN 0
    ELSE IF k = NumLines THEN Len(snmp.output) + 1
    ELSE CHOOSE i \in Newlines : Cardinality({j \in Newlines : j < i}) = k - 1
Line(k) == SubSeq(snmp.output, LineEnd(k - 1) + 1, LineEnd(k) - 1)

\* text without the atoms of chars at its two ends.
Trim(text, chars) ==
    LET kept == {i \in DOMAIN text : text[i] \notin chars} IN
    IF kept = {} THEN <<>>
    ELSE SubSeq(text, CHOOSE i \in kept : \A j \in kept : i <= j,
                      CHOOSE i \in kept : \A j \in kept : i >= j)

IsDigits(text) ==
    text # <<>> /\ \A i \in DOMAIN text :
        text[i] \in {"0", "1", "2", "3", "4", "5", "6", "7", "8", "9"}
IsNumber(text) ==
    \/ IsDigits(text)
    \/ text # <<>> /\ text[1] \in {"-", "+"} /\ IsDigits(Tail(text))
NumberOf(text) ==
    IF text[1] = "-" THEN 0 - decimal(Tail(text))
    ELSE IF text[1] = "+" THEN decimal(Tail(text))
    ELSE decimal(text)

\* The two forms the claim names.
IsIntegerLine(line) ==
    /\ Len(line) > 3
    /\ SubSeq(line, 1, 3) = <<"INTEGER", ":", " ">>
    /\ IsNumber(SubSeq(line, 4, Len(line)))
IsStringLine(line) ==
    /\ Len(line) > 4
    /\ SubSeq(line, 1, 4) = <<"STRING", ":", " ", "\"">>
    /\ line[Len(line)] = "\""

StatedValue(line) ==
    IF IsIntegerLine(line) THEN pyInt(NumberOf(SubSeq(line, 4, Len(line))))
    ELSE IF IsStringLine(line)
    THEN pyStr(Trim(SubSeq(line, 5, Len(line) - 1), whitespace))
    ELSE pyStr(line)

\* What the code does with a line, by the position of its colon.
Colons(line) == {i \in DOMAIN line : line[i] = ":"}
OneColon(line) == Cardinality(Colons(line)) = 1
Style(line) == SubSeq(line, 1, (CHOOSE i \in Colons(line) : TRUE) - 1)
Value(line) == SubSeq(line, (CHOOSE i \in Colons(line) : TRUE) + 1, Len(line))

NotANumber(line) ==
    /\ OneColon(line)
    /\ Style(line) = <<"INTEGER">>
    /\ ~IsNumber(Trim(Value(line), whitespace))

CodeValue(line) ==
    IF ~OneColon(line) THEN pyStr(line)
    ELSE IF Style(line) = <<"INTEGER">>
    THEN pyInt(NumberOf(Trim(Value(line), whitespace)))
    ELSE IF Style(line) = <<"STRING">>
    THEN pyStr(Trim(Trim(Trim(Value(line), whitespace), quotes), whitespace))
    ELSE pyStr(Value(line))

\* C16 as stated, for the calls that return.
C16_AsStated ==
    ParsedCall /\ snmp.raised = "" =>
        /\ snmp.snmp_command = "snmpwalk" =>
            /\ Len(snmp.final_output) = NumLines
            /\ \A k \in 1..NumLines : snmp.final_output[k] = StatedValue(Line(k))
        /\ snmp.snmp_command = "snmpget" =>
               snmp.final_output = StatedValue(Line(1))

\* C16 amended: a line with exactly one colon whose first part is neither
\* INTEGER nor STRING yields the part after the colon; an INTEGER value that
\* is not a number raises ValueError; a STRING value loses whitespace, then
\* every quote, then whitespace at both ends.
C16_ParsedValues ==
    ParsedCall =>
        /\ snmp.raised = (IF \E k \in 1..NumLines : NotANumber(Line(k))
                          THEN "ValueError" ELSE "")
        /\ snmp.raised = "" /\ snmp.snmp_command = "snmpwalk" =>
            /\ Len(snmp.final_output) = NumLines
            /\ \A k \in 1..NumLines : snmp.final_output[k] = CodeValue(Line(k))
        /\ snmp.raised = "" /\ snmp.snmp_command = "snmpget" =>
               snmp.final_output = CodeValue(Line(1))
        \* the doctests
        /\ snmp.snmp_command = "snmpget" =>
            /\ snmp.output = StringLine(<<"Notification">>) =>
                   snmp.final_output = pyStr(<<"Notification">>)
            /\ snmp.output = StringLine(<<" ", "Notification", " ", " ", " ">>) =>
                   snmp.final_output = pyStr(<<"Notification">>)
            /\ snmp.output = IntegerLine(<<"0">>) => snmp.final_output = pyInt(0)
            /\ snmp.output = NoSuchObject =>
                   snmp.final_output = pyStr(NoSuchObject)
        /\ snmp.snmp_command = "snmpwalk" =>
            /\ snmp.output = IntegerLine(<<"0">>) \o <<"\n">>
                               \o IntegerLine(<<"6", "4">>) =>
                   snmp.final_output = <<pyInt(0), pyInt(64)>>
            /\ snmp.output = StringLine(<<"Any", " ", "Source">>) \o <<"\n">>
                               \o StringLine(<<"Notification">>) =>
                   snmp.final_output = <<pyStr(<<"Any", " ", "Source">>),
                                         pyStr(<<"Notification">>)>>

\* A walk of an integer line and a quoted string with spaces around it.
C16_Witness ==
    /\ ParsedCall
    /\ snmp.snmp_command = "snmpwalk"
    /\ snmp.output = IntegerLine(<<"6", "4">>) \o <<"\n">>
                       \o StringLine(<<" ", "Notification", " ", " ", " ">>)
    /\ snmp.final_output = <<pyInt(64), pyStr(<<"Notification">>)>>

(***************************************************************************)
(* C17  For every battery status word, with bit positions counted from the *)
(* least-significant end starting at 1: bit 1 adds one Critical; bit 2 is  *)
(* reported as charging with no counter change; the 2-bit charge numeral   *)
(* gives 'not fully charged' with no counter change when 1 and one         *)
(* Critical when 2 or 3; bit 7 is reported with no counter change; bit 8   *)
(* adds one Critical; the warning counter never changes.  As stated the    *)
(* numeral is read from bits 2-3 (C17_AsStated); the code reads it from    *)
(* bits 3-4 (C17_BatteryBits).                                             *)
(***************************************************************************)
\* The two-bit numeral whose low bit is at position k.
Numeral2(status, k) == Bit(status, k) + 2 * Bit(status, k + 1)

One(condition) == IF condition THEN 1 ELSE 0

\* C17 as stated, for the counters.
C17_AsStated ==
    Classified(11) =>
        /\ NewCritical = Bit(LastStatus, 1)
                          + One(Numeral2(LastStatus, 2) \in {2, 3})
                          + Bit(LastStatus, 8)
        /\ NewWarning = 0

BatteryMessages(status) ==
    (IF Bit(status, 1) = 1 THEN <<"Battery is malfunctioning">> ELSE <<>>)
    \o (IF Bit(status, 2) = 1 THEN <<"Battery charging on">> ELSE <<>>)
    \o (IF Numeral2(status, 3) = 1 THEN <<"Battery not fully charged">>
        ELSE IF Numeral2(status, 3) = 2 THEN <<"Battery charge critically low">>
        ELSE IF Numeral2(status, 3) = 3 THEN <<"Battery completely drained">>
        ELSE <<>>)
    \o (IF Bit(status, 7) = 1 THEN <<"Battery-backup is disabled">> ELSE <<>>)
    \o (IF Bit(status, 8) = 1 THEN <<"Battery is not present">> ELSE <<>>)

\* C17 amended: the numeral is read from bits 3-4; the messages are reported
\* for a status word of at least three digits, a shorter one ends the call
\* with ValueError after the bit 1 increment.
C17_BatteryBits ==
    Classified(11) =>
        /\ NewCritical = Bit(LastStatus, 1)
                          + One(Numeral2(LastStatus, 3) \in {2, 3})
                          + Bit(LastStatus, 8)
        /\ NewWarning = 0
        /\ NewSamples = <<>>
        /\ LastStatus = 0 => NewLines = <<>> /\ error = ""
        /\ LastStatus \in 1..3 => NewLines = <<>> /\ error = "ValueError"
        /\ LastStatus > 3 =>
            /\ error = ""
            /\ NewLines = <<join(<<LastDescription \o ":">>
                                  \o BatteryMessages(LastStatus))>>

\* Status 0b1010: charging, numeral 2 at bits 3-4 (it would be 1 at bits 2-3).
C17_Witness ==
    /\ Classified(11)
    /\ LastStatus = 10
    /\ NewCritical = 1
    /\ NewLines = <<LastDescription \o
                      ": Battery charging on Battery charge critically low">>

(***************************************************************************)
(* C18  For every UPS status word other than 0 and 255, _check_ups raises  *)
(* the critical counter by the number of these that hold: bit 1 set, bit 2 *)
(* set (AC power not present), charge numeral 2 or 3, bit 8 set; and the   *)
(* warning counter by the number of these that hold: charge numeral 1, bit *)
(* 7 set; and it appends exactly one finding line.  Status 0 changes       *)
(* nothing.  The charge numeral is the one the code reads, at bits 3-4.    *)
(***************************************************************************)
C18_UpsCounts ==
    Classified(4) =>
        /\ LastStatus \notin {0, 255} =>
            /\ NewCritical = Bit(LastStatus, 1) + Bit(LastStatus, 2)
                              + One(Numeral2(LastStatus, 3) \in {2, 3})
                              + Bit(LastStatus, 8)
            /\ NewWarning = One(Numeral2(LastStatus, 3) = 1) + Bit(LastStatus, 7)
            /\ Len(NewLines) = 1
        /\ LastStatus = 0 => NothingAdded /\ error = ""

(***************************************************************************)
(* C19  For the voltage-sensor, current-sensor and temperature-sensor      *)
(* classifiers and every status word, the 3-bit numeral of the status word *)
(* (bits 2-4) raises exactly one Warning when it is 2 or 3 and exactly one *)
(* Critical when it is 4 or 5, and nothing for 0, 1, 6 and 7;              *)
(* independently, bit 1 adds one Critical, bit 7 one Warning and bit 8 one *)
(* Critical.  As stated this holds of all three (C19_AsStated); in the     *)
(* code the current sensor knows only 3 (Warning) and 5 (Critical)         *)
(* (C19_SensorNumerals).                                                   *)
(***************************************************************************)
\* The three-bit numeral whose low bit is at position 2.
Numeral3(status) ==
    Bit(status, 2) + 2 * Bit(status, 3) + 4 * Bit(status, 4)

\* The last step changed the counters by a numeral that warns on the values
\* of warn and is critical on those of crit, and by bits 1, 7 and 8.
SensorCounts(warn, crit) ==
    /\ NewCritical = Bit(LastStatus, 1) + One(Numeral3(LastStatus) \in crit)
                      + Bit(LastStatus, 8)
    /\ NewWarning = One(Numeral3(LastStatus) \in warn) + Bit(LastStatus, 7)

C19_AsStated ==
    \A t \in {3, 5, 6, 8} : Classified(t) => SensorCounts({2, 3}, {4, 5})

C19_SensorNumerals ==
    /\ \A t \in {3, 5, 8} : Classified(t) => SensorCounts({2, 3}, {4, 5})
    /\ Classified(6) => SensorCounts({3}, {5})

\* A current sensor with numeral 2 and bit 8: one Critical, for bit 8 only.
C19_Witness ==
    /\ Classified(6)
    /\ LastStatus = 132
    /\ Numeral3(LastStatus) = 2
    /\ NewCritical = 1
    /\ NewWarning = 0
    /\ NewLines = <<LastDescription \o ": Current sensor not present">>

(***************************************************************************)
(* C20  A non-blacklisted reading of a generic pass/fail device type --     *)
(* enclosure management services controller (31), host board (14),         *)
(* midplane/backplane (15), enclosure drawer (18) -- whose status word has  *)
(* bit 1 set yields one finding whose message has the device description   *)
(* followed by 'malfunctioning' and raises the critical counter by exactly *)
(* one; with bit 1 clear it changes no counter.                            *)
(***************************************************************************)
GenericCounts ==
    /\ Bit(LastStatus, 1) = 1 =>
        /\ NewLines = <<LastDescription \o ": " \o LastDescription
                          \o " malfunctioning">>
        /\ NewCritical = 1
        /\ NewWarning = 0
    /\ Bit(LastStatus, 1) = 0 => state = pre.state

C20_GenericDevices ==
    \A t \in {31, 14, 15, 18} : Classified(t) => GenericCounts

(***************************************************************************)
(* C21  For every status word of a power supply, a speaker or a fan, the   *)
(* bit-decoding part of the classifier raises the critical counter by      *)
(* (bit 1 set) + (bit 8 set) and the warning counter by (bit 7 set), with  *)
(* positions counted from the least-significant end starting at 1; bits 2  *)
(* to 6 and bits above 8 have no effect on counters or messages.           *)
(***************************************************************************)
\* The messages of a status word, a function of bits 1, 7 and 8 only.
ThreeBitMessages(status, malfunction, off, absent) ==
    (IF Bit(status, 1) = 1 THEN <<malfunction>> ELSE <<>>)
    \o (IF Bit(status, 7) = 1 THEN <<off>> ELSE <<>>)
    \o (IF Bit(status, 8) = 1 THEN <<absent>> ELSE <<>>)

ThreeBitEffect(malfunction, off, absent) ==
    /\ NewCritical = Bit(LastStatus, 1) + Bit(LastStatus, 8)
    /\ NewWarning = Bit(LastStatus, 7)
    /\ NewLines =
          IF LastStatus = 0 THEN <<>>
          ELSE <<join(<<LastDescription \o ":">>
                      \o ThreeBitMessages(LastStatus, malfunction, off, absent))>>

\* For a fan the bits are decoded once the speed has been looked up.
C21_MalfunctionOffAbsent ==
    /\ Classified(1) =>
           /\ error = ""
           /\ ThreeBitEffect("Power supply is malfunctioning",
                             "Power supply is off", "Power supply is not present")
    /\ Classified(10) =>
           /\ error = ""
           /\ ThreeBitEffect("Speaker is malfunctioning", "Speaker is off",
                             "Speaker is not present")
    /\ Classified(2) /\ error = "" =>
           ThreeBitEffect("Fan is malfunctioning", "Fan is off",
                          "Fan is not present")

\* A speaker with bits 1, 7 and 9 set: bit 9 adds nothing.
C21_Witness ==
    /\ Classified(10)
    /\ LastStatus = 321
    /\ NewCritical = 1
    /\ NewWarning = 1
    /\ NewLines = <<LastDescription \o ": Speaker is malfunctioning Speaker is off">>

(***************************************************************************)
(* C22  For every list of physical-drive status codes, _check_hdd_status   *)
(* adds exactly one Warning and one finding for each drive whose code is   *)
(* in {0,4,5,6,17,19}, exactly one Critical for each drive whose code is   *)
(* in {252,253,254,255} or is 63 with 'absent_drives' not blacklisted, and *)
(* nothing for any other code; a drive increments at most one counter, and *)
(* its finding is labelled with its 1-based position in the list, which    *)
(* drives skipped earlier do not shift.                                    *)
(***************************************************************************)
DriveLabel == "Drive " \o str(last.number) \o ": "

HddWarns == LastDriveStatus \in {0, 4, 5, 6, 17, 19}
HddCritical ==
    \/ LastDriveStatus \in {252, 253, 254, 255}
    \/ LastDriveStatus = 63 /\ ~InBlacklist("absent_drives")

C22_DriveCodes ==
    DriveStep =>
        /\ error = ""
        /\ NewCritical + NewWarning <= 1
        /\ HddWarns =>
            /\ NewWarning = 1
            /\ NewLines = <<DriveLabel \o hddWarningCodes[LastDriveStatus]>>
        /\ HddCritical =>
            /\ NewCritical = 1
            /\ NewLines[1] = DriveLabel \o hddCriticalCodes[LastDriveStatus]
        /\ ~HddWarns /\ ~HddCritical => NothingAdded

\* The second drive of a list whose first, absent, drive was skipped.
C22_Witness ==
    /\ DriveStep
    /\ InBlacklist("absent_drives")
    /\ agent.hddStatus = <<63, 17>>
    /\ last.number = 2
    /\ state = [critical |-> 0, unknown |-> 0, warning |-> 1]
    /\ NewLines = <<"Drive 2: Drive is in process of Cloning another Drive">>

(***************************************************************************)
(* C23  For every list of integer logical-volume status codes,             *)
(* _check_ld_status adds exactly one Warning and one finding for each      *)
(* volume whose code is in {1,2,3}, exactly one Critical and one finding   *)
(* for each volume whose code is in {4,5,6,7,128}, and no finding and no   *)
(* counter change for any other code.                                      *)
(***************************************************************************)
LdStep == last.op = "_check_ld_status"
LastLdStatus == agent.ldStatus[last.number]

C23_LogicalDriveCodes ==
    LdStep =>
        /\ error = ""
        /\ LastLdStatus \in {1, 2, 3} =>
            /\ NewWarning = 1
            /\ NewCritical = 0
            /\ Len(NewLines) = 1
        /\ LastLdStatus \in {4, 5, 6, 7, 128} =>
            /\ NewCritical = 1
            /\ NewWarning = 0
            /\ Len(NewLines) = 1
        /\ LastLdStatus \notin {1, 2, 3, 4, 5, 6, 7, 128} => NothingAdded

\* A dead volume followed by a rebuilding one.
C23_Witness ==
    /\ LdStep
    /\ agent.ldStatus = <<4, 1>>
    /\ last.number = 2
    /\ state = [critical |-> 1, unknown |-> 0, warning |-> 1]
    /\ NewLines = <<"Logical Drive 2: Rebuilding">>

(***************************************************************************)
(* C24  For every temperature reading whose value (after the 16-bit shift, *)
(* if any) is nonzero and for every integer unit, negative ones included,  *)
(* the reported temperature is (value * unit / 1000) - 273.  As stated the *)
(* division truncates toward zero (C24_AsStated); in the code it rounds    *)
(* down (C24_TemperatureRoundsDown).                                       *)
(***************************************************************************)
\* The value after the 16-bit shift.
Shifted(v) == IF v > 65535 THEN v \div 65536 ELSE v

TemperatureStep ==
    /\ Classified(3) \/ Classified(8)
    /\ Shifted(LastValue) # 0

\* The integer quotients of n by 1000: q is one iff n - 1000 q is a
\* remainder of the right sign.
IsFloor(q, n) == 1000 * q <= n /\ n < 1000 * (q + 1)
IsTruncation(q, n) ==
    IF n >= 0 THEN IsFloor(q, n)
    ELSE 1000 * (q - 1) < n /\ n <= 1000 * q

C24_AsStated ==
    TemperatureStep =>
        IsTruncation(Reported + 273, Shifted(LastValue) * LastUnit)

C24_TemperatureRoundsDown ==
    TemperatureStep =>
        /\ Len(NewSamples) = 1
        /\ IsFloor(Reported + 273, Shifted(LastValue) * LastUnit)

\* 300 * -1 / 1000 is -1, not 0: the reading is -274.
C24_Witness ==
    /\ TemperatureStep
    /\ LastValue = 300
    /\ LastUnit = -1
    /\ Reported = -274

(***************************************************************************)
(* C25  No operation of the program ever changes the unknown counter: it   *)
(* is 0 in every reachable state, parse_print_exit never selects the       *)
(* UNKNOWN verdict nor exits with code 3, and every verdict produced is    *)
(* CRITICAL, WARNING or OK.                                                *)
(***************************************************************************)
C25_UnknownNeverCounted ==
    /\ state.unknown = 0
    /\ pre.state.unknown = 0
    /\ exitCode # 3
    /\ verdict # "UNKNOWN"
    /\ last.op = "parse_print_exit" => verdict \in {"CRITICAL", "WARNING", "OK"}

\* A run that found nothing at all ends OK, not UNKNOWN.
C25_Witness ==
    /\ last.op = "parse_print_exit"
    /\ Len(agent.luDevType) = 1
    /\ state = [critical |-> 0, unknown |-> 0, warning |-> 0]
    /\ verdict = "OK"
    /\ exitCode = 0

(***************************************************************************)
(* C26  A raw fan value above 0xFFFF is masked to its low 16 bits before   *)
(* the legacy-table test, so the legacy lookup is only ever made with a    *)
(* value in 10001..65535: it succeeds exactly when the masked value is     *)
(* 12292 and then yields 4000 rpm.  Every raw value listed as a non-zero   *)
(* key of the legacy table (12292, 77828, 143364, 208900, 274436, 339972,  *)
(* 405508, 471044) decodes to 4000 rpm; the entries for 0 and for keys     *)
(* above 65535 are never selected.                                         *)
(***************************************************************************)
LegacyKeys == {12292, 77828, 143364, 208900, 274436, 339972, 405508, 471044}

\* The last step looked the fan value up in the legacy table.
LegacyLookup == Classified(2) /\ Masked(LastValue) > 10000

EndedWith(exception) ==
    /\ error = exception
    /\ pc = "exit"
    /\ exitCode = 1
    /\ verdict = ""
    /\ NothingAdded

C27_TablesAgreeBut99 ==
    /\ \A t \in 0..MaxStatus :
           t # 99 => (t \in DOMAIN blacklistoptions <=> t \in DOMAIN luDevTypeCodes)
    /\ 99 \in DOMAIN blacklistoptions
    /\ DeviceStep =>
        /\ ~Tagged(LastType) => LastType \notin ClassifierTypes /\ EndedWith("KeyError")
        /\ Tagged(LastType) /\ LastType # 99 =>
            /\ LastType \in ClassifierTypes
            /\ InBlacklist(blacklistoptions[LastType]) => NothingAdded /\ error = ""
            /\ ~InBlacklist(blacklistoptions[LastType]) /\ ListsReach =>
                   Added(classify(luDevTypeCodes[LastType], LastDescription,
                                  LastStatus, LastValue, LastUnit))
        /\ LastType = 99 /\ InBlacklist("absent_drives") =>
               NothingAdded /\ error = ""
        /\ LastType = 99 /\ ~InBlacklist("absent_drives") => EndedWith("KeyError")

\* A type 99 reading after a fan, 'absent_drives' not blacklisted: the fan
\* was sampled, the run ends at the second reading.
C27_Witness ==
    /\ DeviceStep
    /\ last.number = 2
    /\ LastType = 99
    /\ blacklist = <<>>
    /\ Len(perfData) = 1
    /\ EndedWith("KeyError")

(***************************************************************************)
(* C28  For a fan reading whose masked raw value is at most 10000 and      *)
(* whose unit is not -1, 0 or 1, the fan classifier reports a speed of 0   *)
(* rpm in its performance sample and raises no error, adds no speed        *)
(* finding and changes no counter on account of the unrecognised unit;     *)
(* with unit -1 or 0 a masked raw value outside 0..7 is an error rather    *)
(* than a speed.                                                           *)
(***************************************************************************)
PlainFan == Classified(2) /\ Masked(LastValue) <= 10000

====
